---- MODULE Spec2Model ----
(***************************************************************************)
(* A model of exmex: tokens -> deep expression (lifting, constant folding) *)
(* -> flat expression, with evaluation, unparsing and the deep cache.      *)
(*                                                                         *)
(* The scalar type T is generic in the crate.  The model instantiates it   *)
(* with a signed wrapping integer of ValBits bits and a caller-supplied    *)
(* operator table over it.  Vector indices keep the source's 0-based       *)
(* values; a sequence s is read at s[i + 1].  A text is a sequence of      *)
(* lexemes (a literal, a variable name bare or in curly braces, an         *)
(* operator representation, a parenthesis).                                *)
(***************************************************************************)
EXTENDS Integers, Sequences, FiniteSets, TLC

\* ------------------------------------------------------------------ bounds
\* width of the scalar type in bits
ValBits == 8
\* operands handed to DeepEx::new
MaxNodes == 4
\* lexemes of an arbitrary input text
MaxLen == 4
\* binary operators of an operand/operator chain
MaxChainOps == 2
\* nesting depth and inner length of a parenthesised input
MaxDepth == 2
MaxInner == 3
\* inner length of a parenthesised group that an operator follows
MaxGroup == 2
\* lexemes of a text whose expression is then operated on
MaxLifeLen == 3
\* length of a binding slice handed to eval, and index handed to partial
MaxBind == 2
\* successful derivations of one expression
MaxPartial == 2
\* longest chain of unary operators in front of one operand
MaxUnary == 4
\* operands handed to DeepEx::new before operate_bin and operate_unary
MaxOpNodes == 3
\* calls of operate_bin and operate_unary on one expression
MaxOperate == 2

\* ------------------------------------------------------- the scalar type T
Modulus == 2 ^ ValBits
MaxT == (Modulus \div 2) - 1
MinT == 0 - (Modulus \div 2)
Wrap(v) == ((v - MinT) % Modulus) + MinT

RECURSIVE wrapping_pow(_, _)
wrapping_pow(a, b) == IF b <= 0 THEN 1 ELSE Wrap(a * wrapping_pow(a, b - 1))

\* the closures of the operator table, by name
ApplyBin(f, a, b) ==
  CASE f = "add" -> Wrap(a + b)
    [] f = "sub" -> Wrap(a - b)
    [] f = "mul" -> Wrap(a * b)
    [] f = "pow" -> IF b < 0 THEN 0 ELSE wrapping_pow(a, b)

ApplyUn(f, a) ==
  CASE f = "id" -> a
    [] f = "neg" -> Wrap(0 - a)
    [] f = "abs" -> IF a < 0 THEN Wrap(0 - a) ELSE a

\* ------------------------------------------------------------ operator table
\* An Option is a sequence of length 0 (None) or 1 (Some).
BinOp(apply, prio, is_commutative) ==
  [apply |-> apply, prio |-> prio, is_commutative |-> is_commutative]

make_bin(repr, bin_op) == [repr |-> repr, bin_op |-> <<bin_op>>, unary_op |-> <<>>]
make_unary(repr, f) == [repr |-> repr, bin_op |-> <<>>, unary_op |-> <<f>>]
make_bin_unary(repr, bin_op, f) == [repr |-> repr, bin_op |-> <<bin_op>>, unary_op |-> <<f>>]

has_bin(op) == Len(op.bin_op) = 1
has_unary(op) == Len(op.unary_op) = 1

\* the table of the default factory: + and - share a priority
MakeOperators ==
  << make_bin("^", BinOp("pow", 4, FALSE)),
     make_bin("*", BinOp("mul", 2, TRUE)),
     make_bin_unary("+", BinOp("add", 1, TRUE), "id"),
     make_bin_unary("-", BinOp("sub", 1, FALSE), "neg"),
     make_unary("abs", "abs") >>

\* a table in which every binary operator has a priority of its own, - above +
StaggeredOperators ==
  << make_bin("^", BinOp("pow", 4, FALSE)),
     make_bin("*", BinOp("mul", 2, TRUE)),
     make_bin_unary("+", BinOp("add", 0, TRUE), "id"),
     make_bin_unary("-", BinOp("sub", 1, FALSE), "neg"),
     make_unary("abs", "abs") >>

find_op(ops, repr) ==
  LET hits == {i \in 1..Len(ops) : ops[i].repr = repr}
  IN  ops[CHOOSE i \in hits : TRUE]

\* ------------------------------------------------------------------- lexemes
LNum(d) == [k |-> "num", digits |-> d]
LVar(name, curly) == [k |-> "var", name |-> name, curly |-> curly]
LOp(repr) == [k |-> "op", repr |-> repr]
LOpen == [k |-> "open"]
LClose == [k |-> "close"]

\* variable names and their order (Rust compares &str bytewise)
VarNames == {"x", "y"}
NameRank(n) == CASE n = "x" -> 1 [] n = "y" -> 2 [] OTHER -> 3
NameLess(a, b) == NameRank(a) < NameRank(b)

\* ------------------------------------------------------------------- results
Ok(v) == [ok |-> TRUE, v |-> v]
Err(msg) == [ok |-> FALSE, err |-> msg]
Panic == [ok |-> FALSE, err |-> "panic"]

\* the ? operator: a failed result goes back to the caller, a success is handed on
Try(r, f(_)) == IF r.ok THEN f(r) ELSE r

\* ---------------------------------------------------------------- sequences
Remove(s, i) == [j \in 1..(Len(s) - 1) |-> IF j <= i THEN s[j] ELSE s[j + 1]]
SetAt(s, i, v) == [j \in 1..Len(s) |-> IF j = i + 1 THEN v ELSE s[j]]
Contains(s, v) == \E j \in 1..Len(s) : s[j] = v
Range(s) == {s[j] : j \in 1..Len(s)}
Suffix(s, i) == SubSeq(s, i + 1, Len(s))

RECURSIVE Concat(_)
Concat(ss) == IF ss = <<>> THEN <<>> ELSE Head(ss) \o Concat(Tail(ss))

\* A stable insertion sort of indices (0-based values) by decreasing key,
\* keys[i + 1] being the key of index i: what slice::sort_by does with the
\* comparator prio_i2.partial_cmp(&prio_i1).
RECURSIVE InsertDesc(_, _, _)
InsertDesc(s, v, keys) ==
  IF s = <<>> THEN <<v>>
  ELSE IF keys[v + 1] > keys[s[Len(s)] + 1]
       THEN Append(InsertDesc(SubSeq(s, 1, Len(s) - 1), v, keys), s[Len(s)])
       ELSE Append(s, v)

RECURSIVE SortDesc(_, _)
SortDesc(s, keys) ==
  IF s = <<>> THEN <<>>
  ELSE InsertDesc(SortDesc(SubSeq(s, 1, Len(s) - 1), keys), s[Len(s)], keys)

\* sort_unstable on variable names
RECURSIVE InsertName(_, _)
InsertName(s, v) ==
  IF s = <<>> THEN <<v>>
  ELSE IF NameLess(v, s[Len(s)])
       THEN Append(InsertName(SubSeq(s, 1, Len(s) - 1), v), s[Len(s)])
       ELSE Append(s, v)

\* mutation: the names stay in the order they were found
sort_unstable_keeps_order(s) == s

RECURSIVE sort_unstable(_)
sort_unstable(s) ==
  IF s = <<>> THEN <<>>
  ELSE InsertName(sort_unstable(SubSeq(s, 1, Len(s) - 1)), s[Len(s)])

\* ------------------------------------------------------------ deep expression
\* DeepNode: Num(v) | Var((idx, name)) | Expr(e)
Num(v) == [k |-> "Num", v |-> v]
Var(idx, name) == [k |-> "Var", idx |-> idx, name |-> name]
Expr(e) == [k |-> "Expr", e |-> e]

BinOpsWithReprs(reprs, ops) == [reprs |-> reprs, ops |-> ops]
BinOpsWithReprs_new == BinOpsWithReprs(<<>>, <<>>)
UnaryOpWithReprs(reprs, op) == [reprs |-> reprs, op |-> op]
UnaryOpWithReprs_new == UnaryOpWithReprs(<<>>, <<>>)

DeepEx(nodes, bin_ops, unary_op, var_names) ==
  [nodes |-> nodes, bin_ops |-> bin_ops, unary_op |-> unary_op, var_names |-> var_names]

\* UnaryOp::apply: the composition, outermost first, is applied innermost first
RECURSIVE UnaryOp_apply(_, _)
UnaryOp_apply(op, x) ==
  IF op = <<>> THEN x ELSE ApplyUn(Head(op), UnaryOp_apply(Tail(op), x))

IsLiftable(e) == Len(e.nodes) = 1 /\ Len(e.unary_op.op) = 0

\* mutation: nothing is lifted
lift_nodes_nothing(deepex) == deepex

RECURSIVE lift_nodes(_)
lift_node(node) ==
  IF node.k = "Expr" /\ IsLiftable(node.e)
  THEN LET inner == node.e.nodes[1]
       IN  CASE inner.k = "Num" -> Num(inner.v)
             [] inner.k = "Var" -> Var(inner.idx, inner.name)
             [] inner.k = "Expr" ->
                  LET e_deeper == lift_nodes(inner.e)
                  IN  IF IsLiftable(e_deeper)
                      THEN Expr(e_deeper)
                      ELSE Expr([node.e EXCEPT !.nodes = <<Expr(e_deeper)>>])
  ELSE node

lift_nodes(deepex) ==
  IF IsLiftable(deepex)
  THEN IF deepex.nodes[1].k = "Expr" THEN deepex.nodes[1].e ELSE deepex
  ELSE [deepex EXCEPT !.nodes = [j \in 1..Len(deepex.nodes) |-> lift_node(deepex.nodes[j])]]

\* mutation: the bonus is more than a step of priority
prio_increase_beyond_step(bin_ops, nodes, bin_op_idx) ==
  IF /\ nodes[bin_op_idx + 1].k = "Num"
     /\ nodes[bin_op_idx + 2].k = "Num"
     /\ bin_ops[bin_op_idx + 1].is_commutative
  THEN bin_ops[bin_op_idx + 1].prio * 10 + 15
  ELSE bin_ops[bin_op_idx + 1].prio * 10

\* the effective priority of the binary operator at bin_op_idx
prio_increase(bin_ops, nodes, bin_op_idx) ==
  IF /\ nodes[bin_op_idx + 1].k = "Num"
     /\ nodes[bin_op_idx + 2].k = "Num"
     /\ bin_ops[bin_op_idx + 1].is_commutative
  THEN bin_ops[bin_op_idx + 1].prio * 10 + 5
  ELSE bin_ops[bin_op_idx + 1].prio * 10

prioritized_indices(bin_ops, nodes) ==
  LET keys == [j \in 1..Len(bin_ops) |-> prio_increase(bin_ops, nodes, j - 1)]
  IN  SortDesc([j \in 1..Len(bin_ops) |-> j - 1], keys)

\* One pass of the folding loop of compile, at position i of prio_indices.
\* st: nodes, num_inds, used_prio_indices, already_declined and, for the
\* claims, three ghost fields the code does not have: spans (for every node
\* the first and last of the original nodes it stands for), marked (the first
\* original node of every node a visit declined) and visits (what every visit
\* of an operator found and did).
Visit(st, bin_op_idx, num_idx, what) ==
  [op |-> bin_op_idx, at |-> num_idx, what |-> what,
   n_nodes |-> Len(st.nodes), n_declined |-> Len(st.already_declined),
   lhs |-> IF num_idx + 1 <= Len(st.spans) THEN st.spans[num_idx + 1] ELSE [lo |-> -1, hi |-> -1],
   rhs |-> IF num_idx + 2 <= Len(st.spans) THEN st.spans[num_idx + 2] ELSE [lo |-> -1, hi |-> -1],
   lhs_declined |-> num_idx + 1 <= Len(st.already_declined) /\ st.already_declined[num_idx + 1],
   rhs_declined |-> num_idx + 2 <= Len(st.already_declined) /\ st.already_declined[num_idx + 2],
   lhs_literal |-> num_idx + 1 <= Len(st.nodes) /\ st.nodes[num_idx + 1].k = "Num",
   rhs_literal |-> num_idx + 2 <= Len(st.nodes) /\ st.nodes[num_idx + 2].k = "Num",
   marked |-> st.marked]

CanFold(st, num_idx) ==
  /\ st.nodes[num_idx + 1].k = "Num"
  /\ st.nodes[num_idx + 2].k = "Num"

\* mutation: the declined flags are not consulted
NotDeclined_ignored(st, num_idx) == TRUE

\* mutation: the indices after the removed position stay as they are
reduce_indices_after_keeps(num_inds, num_idx) == num_inds

\* reduce indices after removed position
reduce_indices_after(num_inds, num_idx) ==
  [j \in 1..Len(num_inds) |-> IF num_inds[j] > num_idx THEN num_inds[j] - 1 ELSE num_inds[j]]

NotDeclined(st, num_idx) ==
  ~(st.already_declined[num_idx + 1] \/ st.already_declined[num_idx + 2])

compile_step(st, ops, prio_indices, i) ==
  LET bin_op_idx == prio_indices[i + 1]
      num_idx == st.num_inds[i + 1]
  IN  IF num_idx + 2 > Len(st.nodes) \/ num_idx + 2 > Len(st.already_declined)
      THEN [st EXCEPT !.panic = TRUE,
                      !.visits = Append(st.visits, Visit(st, bin_op_idx, num_idx, "panic"))]
      ELSE IF CanFold(st, num_idx)
      THEN IF NotDeclined(st, num_idx)
           THEN LET bin_op_result == ApplyBin(ops[bin_op_idx + 1].apply,
                                              st.nodes[num_idx + 1].v, st.nodes[num_idx + 2].v)
                IN  [st EXCEPT
                       !.nodes = Remove(SetAt(st.nodes, num_idx, Num(bin_op_result)), num_idx + 1),
                       !.already_declined = Remove(st.already_declined, num_idx + 1),
                       !.num_inds = reduce_indices_after(st.num_inds, num_idx),
                       !.used_prio_indices = Append(st.used_prio_indices, bin_op_idx),
                       !.spans = Remove(SetAt(st.spans, num_idx,
                                                 [lo |-> st.spans[num_idx + 1].lo,
                                                  hi |-> st.spans[num_idx + 2].hi]),
                                        num_idx + 1),
                       !.visits = Append(st.visits, Visit(st, bin_op_idx, num_idx, "fold"))]
           ELSE [st EXCEPT !.visits = Append(st.visits, Visit(st, bin_op_idx, num_idx, "skip"))]
      ELSE [st EXCEPT !.already_declined =
                        SetAt(SetAt(st.already_declined, num_idx, TRUE), num_idx + 1, TRUE),
                      !.marked = st.marked \cup {st.spans[num_idx + 1].lo, st.spans[num_idx + 2].lo},
                      !.visits = Append(st.visits, Visit(st, bin_op_idx, num_idx, "decline"))]

\* mutation: the loop ends after the first operator
compile_loop_first_visit(st, ops, prio_indices, i) ==
  IF i >= Len(prio_indices) THEN st ELSE compile_step(st, ops, prio_indices, i)

RECURSIVE compile_loop(_, _, _, _)
compile_loop(st, ops, prio_indices, i) ==
  IF i >= Len(prio_indices) \/ st.panic THEN st
  ELSE compile_loop(compile_step(st, ops, prio_indices, i), ops, prio_indices, i + 1)

\* the indices of a sequence that are kept (0-based): filter + collect
RECURSIVE KeepUnused(_, _, _)
KeepUnused(s, used, i) ==
  IF i > Len(s) THEN <<>>
  ELSE (IF Contains(used, i - 1) THEN <<>> ELSE <<s[i]>>) \o KeepUnused(s, used, i + 1)

\* mutation: the representations of the folded operators are kept
resulting_reprs_keeps_folded(reprs, ops, used, i) == reprs

\* the representations pushed while the kept operators are collected: the
\* one at the index of each kept operator
RECURSIVE resulting_reprs(_, _, _, _)
resulting_reprs(reprs, ops, used, i) ==
  IF i > Len(ops) THEN <<>>
  ELSE (IF Contains(used, i - 1) THEN <<>> ELSE <<reprs[i]>>)
         \o resulting_reprs(reprs, ops, used, i + 1)

compile_fold(deepex) ==
  LET prio_indices == prioritized_indices(deepex.bin_ops.ops, deepex.nodes)
      st0 == [nodes |-> deepex.nodes, num_inds |-> prio_indices,
              used_prio_indices |-> <<>>,
              already_declined |-> [j \in 1..Len(deepex.nodes) |-> FALSE],
              spans |-> [j \in 1..Len(deepex.nodes) |-> [lo |-> j - 1, hi |-> j - 1]],
              marked |-> {}, visits |-> <<>>, panic |-> FALSE]
  IN  compile_loop(st0, deepex.bin_ops.ops, prio_indices, 0)

\* mutation: the unary prefix of a single literal is left in place
absorb_unary_keeps_prefix(deepex) == deepex

absorb_unary(deepex) ==
  IF Len(deepex.nodes) = 1 /\ deepex.nodes[1].k = "Num"
  THEN [deepex EXCEPT !.nodes = <<Num(UnaryOp_apply(deepex.unary_op.op, deepex.nodes[1].v))>>,
                      !.unary_op = UnaryOpWithReprs_new]
  ELSE deepex

compile(deepex0) ==
  LET deepex == lift_nodes(deepex0)
      st == compile_fold(deepex)
      used == st.used_prio_indices
  IN  absorb_unary([deepex EXCEPT
        !.nodes = st.nodes,
        !.bin_ops = BinOpsWithReprs(
                      resulting_reprs(deepex.bin_ops.reprs, deepex.bin_ops.ops, used, 1),
                      KeepUnused(deepex.bin_ops.ops, used, 1))])

\* the variable names found in the nodes, in order of first occurrence
RECURSIVE found_vars(_, _, _)
push_new(found, names) ==
  LET F[j \in 0..Len(names)] ==
        IF j = 0 THEN found
        ELSE IF Contains(F[j - 1], names[j]) THEN F[j - 1] ELSE Append(F[j - 1], names[j])
  IN  F[Len(names)]

found_vars(nodes, i, found) ==
  IF i > Len(nodes) THEN found
  ELSE found_vars(nodes, i + 1,
         CASE nodes[i].k = "Num" -> found
           [] nodes[i].k = "Var" -> push_new(found, <<nodes[i].name>>)
           [] nodes[i].k = "Expr" -> push_new(found, nodes[i].e.var_names))

\* an index out of bounds in the folding loop, or a kept operator without a
\* representation at its index
compile_panics(deepex0) ==
  LET deepex == lift_nodes(deepex0)
      st == compile_fold(deepex)
  IN  \/ st.panic
      \/ \E i \in 1..Len(deepex.bin_ops.ops) :
           ~Contains(st.used_prio_indices, i - 1) /\ i > Len(deepex.bin_ops.reprs)

DeepEx_new(nodes, bin_ops, unary_op) ==
  IF Len(nodes) # Len(bin_ops.ops) + 1
  THEN Err("mismatch between number of nodes and binary operators")
  ELSE IF compile_panics(DeepEx(nodes, bin_ops, unary_op, <<>>)) THEN Panic
  ELSE Ok(compile(DeepEx(nodes, bin_ops, unary_op, sort_unstable(found_vars(nodes, 1, <<>>)))))

\* deep evaluation (deep.rs, eval): the consumed-skipping reduction
\* mutation: the scan to the left does not skip consumed slots
shift_left_of_no_skip(ignore, num_idx, shift_left) == shift_left

RECURSIVE shift_left_of(_, _, _)
shift_left_of(ignore, num_idx, shift_left) ==
  IF num_idx - shift_left < 0 THEN -1
  ELSE IF ignore[num_idx - shift_left + 1] THEN shift_left_of(ignore, num_idx, shift_left + 1)
  ELSE shift_left

RECURSIVE shift_right_of(_, _, _)
shift_right_of(ignore, num_idx, shift_right) ==
  IF num_idx + shift_right >= Len(ignore) THEN -1
  ELSE IF ignore[num_idx + shift_right + 1] THEN shift_right_of(ignore, num_idx, shift_right + 1)
  ELSE shift_right

RECURSIVE reduce_loop(_, _, _, _)
reduce_loop(st, ops, prio_indices, i) ==
  IF i >= Len(prio_indices) \/ st.panic THEN st
  ELSE LET bin_op_idx == prio_indices[i + 1]
           num_idx == prio_indices[i + 1]
           shift_left == shift_left_of(st.ignore, num_idx, 0)
           shift_right == shift_right_of(st.ignore, num_idx, 1)
       IN  IF shift_left < 0 \/ shift_right < 0
           THEN [st EXCEPT !.panic = TRUE]
           ELSE reduce_loop(
                  [st EXCEPT
                     !.numbers = SetAt(st.numbers, num_idx - shift_left,
                                   ApplyBin(ops[bin_op_idx + 1].apply,
                                            st.numbers[num_idx - shift_left + 1],
                                            st.numbers[num_idx + shift_right + 1])),
                     !.ignore = SetAt(st.ignore, num_idx + shift_right, TRUE)],
                  ops, prio_indices, i + 1)

reduce(numbers, ops, prio_indices) ==
  reduce_loop([numbers |-> numbers, ignore |-> [j \in 1..Len(numbers) |-> FALSE],
               panic |-> FALSE], ops, prio_indices, 0)

RECURSIVE eval(_, _)
eval(deepex, vars) ==
  LET number(node) ==
        CASE node.k = "Num" -> Ok(node.v)
          [] node.k = "Var" -> IF node.idx < Len(vars) THEN Ok(vars[node.idx + 1]) ELSE Panic
          [] node.k = "Expr" -> eval(node.e, vars)
      results == [j \in 1..Len(deepex.nodes) |-> number(deepex.nodes[j])]
  IN  IF \E j \in 1..Len(results) : ~results[j].ok
      THEN results[CHOOSE j \in 1..Len(results) :
                     ~results[j].ok /\ \A h \in 1..(j - 1) : results[h].ok]
      ELSE IF results = <<>> THEN Panic
      ELSE LET st == reduce([j \in 1..Len(results) |-> results[j].v], deepex.bin_ops.ops,
                            prioritized_indices(deepex.bin_ops.ops, deepex.nodes))
           IN  IF st.panic THEN Panic
               ELSE Ok(UnaryOp_apply(deepex.unary_op.op, st.numbers[1]))

\* -------------------------------------------------------------------- parser
\* ParsedToken: Num(v) | Var(name) | Op(op) | Paren(Open | Close)
TNum(v) == [k |-> "Num", v |-> v]
TVar(name) == [k |-> "Var", name |-> name]
TOp(op) == [k |-> "Op", op |-> op]
TParen(p) == [k |-> "Paren", p |-> p]

\* T::from_str on the digits of a literal
from_str_T(digits) == IF digits > MaxT THEN Err("cannot parse literal") ELSE Ok(digits)

token_of(lexeme, ops) ==
  CASE lexeme.k = "num" -> TNum(from_str_T(lexeme.digits).v)
    [] lexeme.k = "var" -> TVar(lexeme.name)
    [] lexeme.k = "op" -> TOp(find_op(ops, lexeme.repr))
    [] lexeme.k = "open" -> TParen("Open")
    [] lexeme.k = "close" -> TParen("Close")

tokenize_and_analyze(text, ops) ==
  IF \E j \in 1..Len(text) : text[j].k = "num" /\ ~from_str_T(text[j].digits).ok
  THEN Err("cannot parse literal")
  ELSE Ok([j \in 1..Len(text) |-> token_of(text[j], ops)])

IsOperand(t) == t.k = "Num" \/ t.k = "Var"
IsClose(t) == t.k = "Paren" /\ t.p = "Close"
IsOpen(t) == t.k = "Paren" /\ t.p = "Open"

\* mutation: parentheses still open at the end are accepted
RECURSIVE paren_depths_ok_accepts_open(_, _, _)
paren_depths_ok_accepts_open(tokens, i, depth) ==
  IF depth < 0 THEN FALSE
  ELSE IF i > Len(tokens) THEN TRUE
  ELSE paren_depths_ok_accepts_open(tokens, i + 1,
         IF IsOpen(tokens[i]) THEN depth + 1
         ELSE IF IsClose(tokens[i]) THEN depth - 1 ELSE depth)

\* the nesting depth after each token; balanced: never negative, 0 at the end
RECURSIVE paren_depths_ok(_, _, _)
paren_depths_ok(tokens, i, depth) ==
  IF depth < 0 THEN FALSE
  ELSE IF i > Len(tokens) THEN depth = 0
  ELSE paren_depths_ok(tokens, i + 1,
         IF IsOpen(tokens[i]) THEN depth + 1
         ELSE IF IsClose(tokens[i]) THEN depth - 1 ELSE depth)

check_parsed_token_preconditions(tokens) ==
  IF tokens = <<>> THEN Err("cannot parse empty string")
  ELSE IF ~paren_depths_ok(tokens, 1, 0) THEN Err("parentheses mismatch")
  ELSE IF \E j \in 1..(Len(tokens) - 1) : IsOperand(tokens[j]) /\ IsOperand(tokens[j + 1])
       THEN Err("a number/variable cannot be next to a number/variable")
  ELSE IF \E j \in 1..Len(tokens) :
            /\ tokens[j].k = "Op" /\ has_bin(tokens[j].op) /\ ~has_unary(tokens[j].op)
            /\ (j = 1 \/ ~(IsOperand(tokens[j - 1]) \/ IsClose(tokens[j - 1])))
       THEN Err("a binary operator needs an operand on its left")
  ELSE IF \E j \in 1..Len(tokens) :
            /\ tokens[j].k = "Op" /\ has_unary(tokens[j].op) /\ ~has_bin(tokens[j].op)
            /\ (j = Len(tokens) \/ ~(\/ IsOperand(tokens[j + 1]) \/ IsOpen(tokens[j + 1])
                                     \/ (tokens[j + 1].k = "Op" /\ has_unary(tokens[j + 1].op))))
       THEN Err("a unary operator needs an operand on its right")
  ELSE Ok(TRUE)

find_parsed_vars(tokens) ==
  LET names == [j \in 1..Len(tokens) |-> IF tokens[j].k = "Var" THEN <<tokens[j].name>> ELSE <<>>]
  IN  sort_unstable(push_new(<<>>, Concat(names)))

find_var_index(name, parsed_vars) ==
  (CHOOSE j \in 1..Len(parsed_vars) : parsed_vars[j] = name) - 1

is_operator_binary(op, parsed_token_on_the_left) ==
  IF has_bin(op) /\ has_unary(op)
  THEN IsOperand(parsed_token_on_the_left) \/ IsClose(parsed_token_on_the_left)
  ELSE has_bin(op)

\* ------------------------------------------------------------- tree building
\* A successful build: the expression, the number of tokens consumed and the
\* ghost field log, the shape ("binary" / "unary") each operator token was
\* taken as, in token order.
Built(expr, fwd, log) == [ok |-> TRUE, v |-> expr, fwd |-> fwd, log |-> log]

\* mutation: the operators that follow the first are gathered in reverse order
RECURSIVE gather_uops_reversed(_, _)
gather_uops_reversed(parsed_tokens, j) ==
  IF j < Len(parsed_tokens) /\ parsed_tokens[j + 1].k = "Op" /\ has_unary(parsed_tokens[j + 1].op)
  THEN gather_uops_reversed(parsed_tokens, j + 1) \o <<parsed_tokens[j + 1].op>>
  ELSE <<>>

RECURSIVE gather_uops(_, _)
gather_uops(parsed_tokens, j) ==
  IF j < Len(parsed_tokens) /\ parsed_tokens[j + 1].k = "Op" /\ has_unary(parsed_tokens[j + 1].op)
  THEN <<parsed_tokens[j + 1].op>> \o gather_uops(parsed_tokens, j + 1)
  ELSE <<>>

RECURSIVE make_expression(_, _, _)
RECURSIVE make_expression_loop(_, _, _, _)

\* mutation: the unary operators in front of a literal are not applied to it
process_unary_drops_prefix(token_idx, unary_op, repr, parsed_tokens, parsed_vars) ==
  LET more == gather_uops(parsed_tokens, token_idx + 1)
      vec_of_uops == <<unary_op>> \o [j \in 1..Len(more) |-> more[j].unary_op[1]]
      vec_of_uop_reprs == <<repr>> \o [j \in 1..Len(more) |-> more[j].repr]
      n_uops == Len(vec_of_uops)
      uop == UnaryOpWithReprs(vec_of_uop_reprs, vec_of_uops)
      log == [j \in 1..n_uops |-> "unary"]
  IN  IF token_idx + n_uops >= Len(parsed_tokens) THEN Panic
      ELSE LET t == parsed_tokens[token_idx + n_uops + 1]
           IN  CASE t.k = "Paren" ->
                      Try(make_expression(Suffix(parsed_tokens, token_idx + n_uops + 1),
                                          parsed_vars, uop),
                          LAMBDA r : Built(Expr(r.v), r.fwd + n_uops + 1, log \o r.log))
                 [] t.k = "Var" ->
                      Try(DeepEx_new(<<Var(find_var_index(t.name, parsed_vars), t.name)>>,
                                     BinOpsWithReprs_new, uop),
                          LAMBDA r : Built(Expr(r.v), n_uops + 1, log))
                 [] t.k = "Num" -> Built(Num(t.v), n_uops + 1, log)
                 [] OTHER -> Err("Invalid parsed token configuration")

process_unary(token_idx, unary_op, repr, parsed_tokens, parsed_vars) ==
  LET more == gather_uops(parsed_tokens, token_idx + 1)
      vec_of_uops == <<unary_op>> \o [j \in 1..Len(more) |-> more[j].unary_op[1]]
      vec_of_uop_reprs == <<repr>> \o [j \in 1..Len(more) |-> more[j].repr]
      n_uops == Len(vec_of_uops)
      uop == UnaryOpWithReprs(vec_of_uop_reprs, vec_of_uops)
      log == [j \in 1..n_uops |-> "unary"]
  IN  IF token_idx + n_uops >= Len(parsed_tokens) THEN Panic
      ELSE LET t == parsed_tokens[token_idx + n_uops + 1]
           IN  CASE t.k = "Paren" ->
                      Try(make_expression(Suffix(parsed_tokens, token_idx + n_uops + 1),
                                          parsed_vars, uop),
                          LAMBDA r : Built(Expr(r.v), r.fwd + n_uops + 1, log \o r.log))
                 [] t.k = "Var" ->
                      Try(DeepEx_new(<<Var(find_var_index(t.name, parsed_vars), t.name)>>,
                                     BinOpsWithReprs_new, uop),
                          LAMBDA r : Built(Expr(r.v), n_uops + 1, log))
                 [] t.k = "Num" -> Built(Num(UnaryOp_apply(vec_of_uops, t.v)), n_uops + 1, log)
                 [] OTHER -> Err("Invalid parsed token configuration")

\* the main loop of make_expression: st holds idx_tkn, nodes, bin_ops,
\* reprs_bin_ops and log
make_expression_loop(st, parsed_tokens, parsed_vars, unary_ops) ==
  IF st.idx_tkn >= Len(parsed_tokens) \/ st.done
  THEN Try(DeepEx_new(st.nodes, BinOpsWithReprs(st.reprs_bin_ops, st.bin_ops), unary_ops),
           LAMBDA r : Built(r.v, st.idx_tkn, st.log))
  ELSE LET t == parsed_tokens[st.idx_tkn + 1]
       IN  CASE t.k = "Op" ->
                  IF st.idx_tkn > 0 /\ is_operator_binary(t.op, parsed_tokens[st.idx_tkn])
                  THEN IF ~has_bin(t.op) THEN Err("operator is not binary")
                       ELSE make_expression_loop(
                              [st EXCEPT !.bin_ops = Append(@, t.op.bin_op[1]),
                                         !.reprs_bin_ops = Append(@, t.op.repr),
                                         !.idx_tkn = @ + 1,
                                         !.log = Append(@, "binary")],
                              parsed_tokens, parsed_vars, unary_ops)
                  ELSE IF ~has_unary(t.op) THEN Err("operator is not unary")
                       ELSE Try(process_unary(st.idx_tkn, t.op.unary_op[1], t.op.repr,
                                              parsed_tokens, parsed_vars),
                                LAMBDA r : make_expression_loop(
                                             [st EXCEPT !.nodes = Append(@, r.v),
                                                        !.idx_tkn = @ + r.fwd,
                                                        !.log = @ \o r.log],
                                             parsed_tokens, parsed_vars, unary_ops))
             [] t.k = "Num" ->
                  make_expression_loop([st EXCEPT !.nodes = Append(@, Num(t.v)), !.idx_tkn = @ + 1],
                                       parsed_tokens, parsed_vars, unary_ops)
             [] t.k = "Var" ->
                  make_expression_loop(
                    [st EXCEPT !.nodes = Append(@, Var(find_var_index(t.name, parsed_vars), t.name)),
                               !.idx_tkn = @ + 1],
                    parsed_tokens, parsed_vars, unary_ops)
             [] t.k = "Paren" /\ t.p = "Open" ->
                  Try(make_expression(Suffix(parsed_tokens, st.idx_tkn + 1), parsed_vars,
                                      UnaryOpWithReprs_new),
                      LAMBDA r : make_expression_loop(
                                   [st EXCEPT !.nodes = Append(@, Expr(r.v)),
                                              !.idx_tkn = @ + 1 + r.fwd,
                                              !.log = @ \o r.log],
                                   parsed_tokens, parsed_vars, unary_ops))
             [] t.k = "Paren" /\ t.p = "Close" ->
                  make_expression_loop([st EXCEPT !.idx_tkn = @ + 1, !.done = TRUE],
                                       parsed_tokens, parsed_vars, unary_ops)

make_expression(parsed_tokens, parsed_vars, unary_ops) ==
  make_expression_loop([idx_tkn |-> 0, nodes |-> <<>>, bin_ops |-> <<>>, reprs_bin_ops |-> <<>>,
                        log |-> <<>>, done |-> FALSE],
                       parsed_tokens, parsed_vars, unary_ops)

\* deep::parse: a Built result, or an error
parse(text, ops) ==
  Try(tokenize_and_analyze(text, ops),
      LAMBDA parsed_tokens :
        Try(check_parsed_token_preconditions(parsed_tokens.v),
            LAMBDA checked : make_expression(parsed_tokens.v, find_parsed_vars(parsed_tokens.v),
                                             UnaryOpWithReprs_new)))

\* ------------------------------------------------------------------ unparsing
\* format!("{:?}", n) for the scalar type, as lexemes
format_debug(n) == IF n < 0 THEN <<LOp("-"), LNum(0 - n)>> ELSE <<LNum(n)>>

\* mutation: a nested expression is put in parentheses also when it has a
\* unary prefix
RECURSIVE unparse_raw_always_wraps(_)
unparse_raw_always_wraps(deepex) ==
  LET node_string(n) ==
        CASE n.k = "Num" -> format_debug(n.v)
          [] n.k = "Var" -> <<LVar(n.name, TRUE)>>
          [] n.k = "Expr" -> <<LOpen>> \o unparse_raw_always_wraps(n.e) \o <<LClose>>
      with_bin_ops[j \in 1..Len(deepex.nodes)] ==
        IF j = 1 THEN node_string(deepex.nodes[1])
        ELSE with_bin_ops[j - 1] \o <<LOp(deepex.bin_ops.reprs[j - 1])>> \o node_string(deepex.nodes[j])
      unary_op_string == Concat([j \in 1..Len(deepex.unary_op.reprs) |->
                                   <<LOp(deepex.unary_op.reprs[j]), LOpen>>])
      closings == [j \in 1..Len(deepex.unary_op.op) |-> LClose]
  IN  IF Len(deepex.unary_op.op) = 0 THEN with_bin_ops[Len(deepex.nodes)]
      ELSE unary_op_string \o with_bin_ops[Len(deepex.nodes)] \o closings

RECURSIVE unparse_raw(_)
unparse_raw(deepex) ==
  LET node_string(n) ==
        CASE n.k = "Num" -> format_debug(n.v)
          [] n.k = "Var" -> <<LVar(n.name, TRUE)>>
          [] n.k = "Expr" -> IF Len(n.e.unary_op.op) = 0
                             THEN <<LOpen>> \o unparse_raw(n.e) \o <<LClose>>
                             ELSE unparse_raw(n.e)
      with_bin_ops[j \in 1..Len(deepex.nodes)] ==
        IF j = 1 THEN node_string(deepex.nodes[1])
        ELSE with_bin_ops[j - 1] \o <<LOp(deepex.bin_ops.reprs[j - 1])>> \o node_string(deepex.nodes[j])
      unary_op_string == Concat([j \in 1..Len(deepex.unary_op.reprs) |->
                                   <<LOp(deepex.unary_op.reprs[j]), LOpen>>])
      closings == [j \in 1..Len(deepex.unary_op.op) |-> LClose]
  IN  IF Len(deepex.unary_op.op) = 0 THEN with_bin_ops[Len(deepex.nodes)]
      ELSE unary_op_string \o with_bin_ops[Len(deepex.nodes)] \o closings

\* ------------------------------------------------------------ flat expression
\* FlatNode: a kind (Num(v) | Var(idx) | Expr(nodes, ops, prio_indices)) and
\* the unary prefix the node carries
FlatNode(kind, unary_op) == [kind |-> kind, unary_op |-> unary_op]
FlatNum(v) == [k |-> "Num", v |-> v]
FlatVar(idx) == [k |-> "Var", idx |-> idx]
FlatExpr(nodes, ops, prio_indices) ==
  [k |-> "Expr", nodes |-> nodes, ops |-> ops, prio_indices |-> prio_indices]

prioritized_indices_flat(ops, nodes) ==
  LET key(i) == IF /\ nodes[i + 1].kind.k = "Num" /\ nodes[i + 2].kind.k = "Num"
                   /\ ops[i + 1].is_commutative
                THEN ops[i + 1].prio * 10 + 5
                ELSE ops[i + 1].prio * 10
  IN  SortDesc([j \in 1..Len(ops) |-> j - 1], [j \in 1..Len(ops) |-> key(j - 1)])

RECURSIVE flatten_vecs(_)
flatten_node(node) ==
  CASE node.k = "Num" -> FlatNode(FlatNum(node.v), <<>>)
    [] node.k = "Var" -> FlatNode(FlatVar(node.idx), <<>>)
    [] node.k = "Expr" ->
         LET sub == flatten_vecs([node.e EXCEPT !.unary_op = UnaryOpWithReprs_new])
         IN  FlatNode(FlatExpr(sub.nodes, sub.ops, prioritized_indices_flat(sub.ops, sub.nodes)),
                      node.e.unary_op.op)

flatten_vecs(deepex) ==
  IF Len(deepex.unary_op.op) = 0
  THEN [nodes |-> [j \in 1..Len(deepex.nodes) |-> flatten_node(deepex.nodes[j])],
        ops |-> deepex.bin_ops.ops]
  ELSE [nodes |-> <<flatten_node(Expr(deepex))>>, ops |-> <<>>]

RECURSIVE eval_flat_nodes(_, _, _, _)
eval_flat_nodes(vars, nodes, ops, prio_indices) ==
  LET number(node) ==
        LET raw == CASE node.kind.k = "Num" -> Ok(node.kind.v)
                     [] node.kind.k = "Var" ->
                          IF node.kind.idx < Len(vars) THEN Ok(vars[node.kind.idx + 1]) ELSE Panic
                     [] node.kind.k = "Expr" ->
                          eval_flat_nodes(vars, node.kind.nodes, node.kind.ops, node.kind.prio_indices)
        IN  IF raw.ok THEN Ok(UnaryOp_apply(node.unary_op, raw.v)) ELSE raw
      results == [j \in 1..Len(nodes) |-> number(nodes[j])]
  IN  IF results = <<>> \/ \E j \in 1..Len(results) : ~results[j].ok THEN Panic
      ELSE LET st == reduce([j \in 1..Len(results) |-> results[j].v], ops, prio_indices)
           IN  IF st.panic THEN Panic ELSE Ok(st.numbers[1])

eval_flatex(vars, nodes, ops, prio_indices, n_unique_vars) ==
  IF n_unique_vars # Len(vars)
  THEN Err("parsed expression contains another number of vars than the passed slice")
  ELSE eval_flat_nodes(vars, nodes, ops, prio_indices)

\* Option: None is <<>>, Some(v) is <<v>>
None == <<>>
Some(v) == <<v>>
is_some(o) == Len(o) = 1

n_vars(deepex) == Len(deepex.var_names)

\* mutation: the operators are applied in the order of the text
flatten_in_text_order(deepex) ==
  LET vecs == flatten_vecs(deepex)
  IN  [nodes |-> vecs.nodes,
       ops |-> vecs.ops,
       prio_indices |-> [j \in 1..Len(vecs.ops) |-> j - 1],
       n_unique_vars |-> n_vars(deepex),
       deepex |-> Some(deepex)]

flatten(deepex) ==
  LET vecs == flatten_vecs(deepex)
  IN  [nodes |-> vecs.nodes,
       ops |-> vecs.ops,
       prio_indices |-> prioritized_indices_flat(vecs.ops, vecs.nodes),
       n_unique_vars |-> n_vars(deepex),
       deepex |-> Some(deepex)]

\* FlatEx::from_str
FlatEx_from_str(text) ==
  Try(parse(text, MakeOperators), LAMBDA deepex : Ok(flatten(deepex.v)))

\* mutation: the declared count is taken from the slice itself
FlatEx_eval_any_length(self, vars) ==
  eval_flatex(vars, self.nodes, self.ops, self.prio_indices, Len(vars))

FlatEx_eval(self, vars) ==
  eval_flatex(vars, self.nodes, self.ops, self.prio_indices, self.n_unique_vars)

FlatEx_unparse(self) ==
  IF is_some(self.deepex) THEN Ok(unparse_raw(self.deepex[1]))
  ELSE Err("unparse impossible, since deep expression optimized away")

\* mutation: the declared variable count is dropped with the cache
FlatEx_reduce_memory_drops_count(self) == [self EXCEPT !.deepex = None, !.n_unique_vars = 0]

\* mutation: the cache is kept
FlatEx_reduce_memory_keeps_cache(self) == self

FlatEx_reduce_memory(self) == [self EXCEPT !.deepex = None]

\* Display for FlatEx and OwnedFlatEx: the unparsed text or the error message
Display_fmt(unparsed) == IF unparsed.ok THEN unparsed.v ELSE unparsed.err

\* ------------------------------------------------------------ deep helpers
DeepEx_unparse(deepex) == unparse_raw(deepex)

DeepEx_from_node(node) == DeepEx_new(<<node>>, BinOpsWithReprs_new, UnaryOpWithReprs_new).v
DeepEx_zero == DeepEx_from_node(Num(0))
DeepEx_one == DeepEx_from_node(Num(1))

\* mutation: the new list is taken over, the indices stay
reset_vars_keeps_indices(deepex, new_var_names) == [deepex EXCEPT !.var_names = new_var_names]

RECURSIVE reset_vars(_, _)
reset_vars(deepex, new_var_names) ==
  LET new_idx(node) ==
        IF \E j \in 1..Len(new_var_names) : new_var_names[j] = node.name
        THEN (CHOOSE j \in 1..Len(new_var_names) :
                /\ new_var_names[j] = node.name
                /\ \A l \in (j + 1)..Len(new_var_names) : new_var_names[l] # node.name) - 1
        ELSE node.idx
      reset(node) ==
        CASE node.k = "Expr" -> Expr(reset_vars(node.e, new_var_names))
          [] node.k = "Var" -> Var(new_idx(node), node.name)
          [] node.k = "Num" -> node
  IN  [deepex EXCEPT !.nodes = [j \in 1..Len(deepex.nodes) |-> reset(deepex.nodes[j])],
                     !.var_names = new_var_names]

\* mutation: the merged list is not sorted
var_names_union_unsorted(self, other) ==
  LET all_var_names == push_new(self.var_names, other.var_names)
  IN  <<reset_vars(self, all_var_names), reset_vars(other, all_var_names)>>

var_names_union(self, other) ==
  LET all_var_names == sort_unstable(push_new(self.var_names, other.var_names))
  IN  <<reset_vars(self, all_var_names), reset_vars(other, all_var_names)>>

\* mutation: the derivative keeps the names it was built with
var_names_like_other_keeps_own(self, other) == self

var_names_like_other(self, other) == [self EXCEPT !.var_names = other.var_names]

\* mutation: the two operands change places
operate_bin_swapped(self, other, bin_op) ==
  LET updated == var_names_union(self, other)
      resex == DeepEx_new(<<Expr(updated[2]), Expr(updated[1])>>, bin_op, UnaryOpWithReprs_new).v
  IN  compile(resex)

operate_bin(self, other, bin_op) ==
  LET updated == var_names_union(self, other)
      resex == DeepEx_new(<<Expr(updated[1]), Expr(updated[2])>>, bin_op, UnaryOpWithReprs_new).v
  IN  compile(resex)

\* operate_bin panics when DeepEx::new fails (unwrap) or compile panics
operate_bin_panics(self, other, bin_op) ==
  LET updated == var_names_union(self, other)
  IN  \E r \in {DeepEx_new(<<Expr(updated[1]), Expr(updated[2])>>, bin_op,
                            UnaryOpWithReprs_new)} :
        ~r.ok \/ compile_panics(r.v)

\* UnaryOpWithReprs::append_front puts the new operators in front
append_front(self, other) ==
  UnaryOpWithReprs(other.reprs \o self.reprs, other.op \o self.op)

operate_unary(self, unary_op) ==
  compile([self EXCEPT !.unary_op = append_front(self.unary_op, unary_op)])

\* ------------------------------------------------------------ owned buffer
RECURSIVE DeepBuf_from_deepex(_)
DeepBuf_from_deepex(deepex) ==
  [nodes |-> [j \in 1..Len(deepex.nodes) |->
                IF deepex.nodes[j].k = "Expr"
                THEN Expr(DeepBuf_from_deepex(deepex.nodes[j].e))
                ELSE deepex.nodes[j]],
   bin_ops |-> deepex.bin_ops,
   unary_op |-> deepex.unary_op,
   unparsed |-> unparse_raw(deepex),
   var_names |-> deepex.var_names]

\* mutation: the variable list stored in the buffer is not put back
RECURSIVE DeepBuf_to_deepex_keeps_found_vars(_)
DeepBuf_to_deepex_keeps_found_vars(self) ==
  LET sub == [j \in 1..Len(self.nodes) |->
                IF self.nodes[j].k = "Expr"
                THEN DeepBuf_to_deepex_keeps_found_vars(self.nodes[j].e)
                ELSE Ok(self.nodes[j])]
  IN  IF \E j \in 1..Len(sub) : ~sub[j].ok
      THEN sub[CHOOSE j \in 1..Len(sub) : ~sub[j].ok /\ \A l \in 1..(j - 1) : sub[l].ok]
      ELSE LET nodes == [j \in 1..Len(sub) |->
                           IF self.nodes[j].k = "Expr" THEN Expr(sub[j].v) ELSE sub[j].v]
           IN  DeepEx_new(nodes, self.bin_ops, self.unary_op)

RECURSIVE DeepBuf_to_deepex(_)
DeepBuf_to_deepex(self) ==
  LET sub == [j \in 1..Len(self.nodes) |->
                IF self.nodes[j].k = "Expr"
                THEN DeepBuf_to_deepex(self.nodes[j].e)
                ELSE Ok(self.nodes[j])]
  IN  IF \E j \in 1..Len(sub) : ~sub[j].ok
      THEN sub[CHOOSE j \in 1..Len(sub) : ~sub[j].ok /\ \A l \in 1..(j - 1) : sub[l].ok]
      ELSE LET nodes == [j \in 1..Len(sub) |->
                           IF self.nodes[j].k = "Expr" THEN Expr(sub[j].v) ELSE sub[j].v]
           IN  Try(DeepEx_new(nodes, self.bin_ops, self.unary_op),
                   LAMBDA deepex : Ok([deepex.v EXCEPT !.var_names = self.var_names]))

\* mutation: the conversion leaves the deep cache behind
OwnedFlatEx_from_flatex_drops_cache(flatex) ==
  [deepex_buf |-> None,
   nodes |-> flatex.nodes,
   ops |-> flatex.ops,
   prio_indices |-> flatex.prio_indices,
   n_unique_vars |-> flatex.n_unique_vars]

OwnedFlatEx_from_flatex(flatex) ==
  [deepex_buf |-> IF is_some(flatex.deepex) THEN Some(DeepBuf_from_deepex(flatex.deepex[1]))
                  ELSE None,
   nodes |-> flatex.nodes,
   ops |-> flatex.ops,
   prio_indices |-> flatex.prio_indices,
   n_unique_vars |-> flatex.n_unique_vars]

OwnedFlatEx_from_str(text) ==
  Try(FlatEx_from_str(text), LAMBDA flatex : Ok(OwnedFlatEx_from_flatex(flatex.v)))

OwnedFlatEx_eval(self, vars) ==
  eval_flatex(vars, self.nodes, self.ops, self.prio_indices, self.n_unique_vars)

OwnedFlatEx_unparse(self) ==
  IF is_some(self.deepex_buf) THEN Ok(self.deepex_buf[1].unparsed)
  ELSE Err("unparse impossible, since deep expression optimized away")

OwnedFlatEx_reduce_memory(self) == [self EXCEPT !.deepex_buf = None]

\* ------------------------------------------------------------ differentiation
\* the operators the differentiator knows in this instantiation: + - * and
\* the unary prefixes - and +
bin_with_repr(repr) == BinOpsWithReprs(<<repr>>, <<find_op(MakeOperators, repr).bin_op[1]>>)
unary_with_repr(repr) == UnaryOpWithReprs(<<repr>>, <<find_op(MakeOperators, repr).unary_op[1]>>)

\* derivative of lhs op rhs from the pairs (value, derivative) of both sides
partial_bin(repr, u, du, v, dv) ==
  CASE repr = "+" -> Ok(operate_bin(du, dv, bin_with_repr("+")))
    [] repr = "-" -> Ok(operate_bin(du, dv, bin_with_repr("-")))
    [] repr = "*" -> Ok(operate_bin(operate_bin(du, v, bin_with_repr("*")),
                                    operate_bin(u, dv, bin_with_repr("*")),
                                    bin_with_repr("+")))
    [] OTHER -> Err("unknown operator for derivative")

RECURSIVE partial_loop(_, _, _, _)
partial_loop(st, bin_ops, prio_indices, i) ==
  IF i >= Len(prio_indices) THEN Ok(st.ders[1])
  ELSE LET num_idx == prio_indices[i + 1]
           l == num_idx - shift_left_of(st.ignore, num_idx, 0)
           r == num_idx + shift_right_of(st.ignore, num_idx, 1)
           repr == bin_ops.reprs[num_idx + 1]
       IN  Try(partial_bin(repr, st.vals[l + 1], st.ders[l + 1], st.vals[r + 1], st.ders[r + 1]),
               LAMBDA d : partial_loop(
                  [st EXCEPT
                     !.ders = SetAt(st.ders, l, d.v),
                     !.vals = SetAt(st.vals, l,
                                operate_bin(st.vals[l + 1], st.vals[r + 1],
                                            BinOpsWithReprs(<<repr>>, <<bin_ops.ops[num_idx + 1]>>))),
                     !.ignore = SetAt(st.ignore, r, TRUE)],
                  bin_ops, prio_indices, i + 1))

\* chain rule along the unary prefix, outermost last
RECURSIVE partial_unary(_, _)
partial_unary(reprs, der) ==
  IF reprs = <<>> THEN Ok(der)
  ELSE Try(partial_unary(Tail(reprs), der),
           LAMBDA inner :
             CASE Head(reprs) = "-" -> Ok(operate_unary(inner.v, unary_with_repr("-")))
               [] Head(reprs) = "+" -> inner
               [] OTHER -> Err("unknown operator for derivative"))

\* Every operand built here declares the variables of the expression that is
\* derived (var_names_like_other), so that operate_bin, which renumbers the
\* variables by name over the union of both lists, leaves the indices alone.
RECURSIVE partial_rec(_, _)
partial_rec(var_idx, deepex) ==
  LET val(node) == IF node.k = "Expr" THEN node.e
                   ELSE var_names_like_other(DeepEx_from_node(node), deepex)
      der(node) ==
        CASE node.k = "Num" -> Ok(var_names_like_other(DeepEx_zero, deepex))
          [] node.k = "Var" -> Ok(var_names_like_other(
                                    IF node.idx = var_idx THEN DeepEx_one ELSE DeepEx_zero,
                                    deepex))
          [] node.k = "Expr" -> partial_rec(var_idx, node.e)
      ders == [j \in 1..Len(deepex.nodes) |-> der(deepex.nodes[j])]
  IN  IF \E j \in 1..Len(ders) : ~ders[j].ok
      THEN ders[CHOOSE j \in 1..Len(ders) : ~ders[j].ok /\ \A l \in 1..(j - 1) : ders[l].ok]
      ELSE Try(partial_loop(
                 [vals |-> [j \in 1..Len(deepex.nodes) |-> val(deepex.nodes[j])],
                  ders |-> [j \in 1..Len(ders) |-> ders[j].v],
                  ignore |-> [j \in 1..Len(ders) |-> FALSE]],
                 deepex.bin_ops,
                 prioritized_indices(deepex.bin_ops.ops, deepex.nodes), 0),
               LAMBDA folded :
                 Try(partial_unary(deepex.unary_op.reprs, folded.v),
                     LAMBDA d : Ok(var_names_like_other(d.v, deepex))))

partial_deepex(var_idx, deepex, ops) ==
  IF var_idx >= n_vars(deepex)
  THEN Err("index of variable is out of range")
  ELSE partial_rec(var_idx, deepex)

FlatEx_partial(self, var_idx) ==
  IF ~is_some(self.deepex)
  THEN Err("need deep expression for derivation, not possible after calling clear")
  ELSE Try(partial_deepex(var_idx, self.deepex[1], MakeOperators),
           LAMBDA d_i : Ok(flatten(d_i.v)))

OwnedFlatEx_partial(self, var_idx) ==
  IF ~is_some(self.deepex_buf)
  THEN Err("need deep expression for derivation, not possible after calling clear")
  ELSE Try(DeepBuf_to_deepex(self.deepex_buf[1]),
           LAMBDA deepex :
             Try(partial_deepex(var_idx, deepex.v, MakeOperators),
                 LAMBDA d_i : Ok(OwnedFlatEx_from_flatex(flatten(d_i.v)))))

\* ------------------------------------------------------------------ inputs
Seqs(S, n) == UNION {[1..k -> S] : k \in 1..n}
Seqs0(S, n) == UNION {[1..k -> S] : k \in 0..n}

Literals == {LNum(2), LNum(7)}
Operands == Literals \cup {LVar("x", FALSE), LVar("x", TRUE), LVar("y", FALSE)}
BinReprs == {"+", "-", "*", "^"}
Alphabet == Operands \cup {LOp(r) : r \in BinReprs \cup {"abs"}} \cup {LOpen, LClose}

\* operand (operator operand)*
Chain(a, o) ==
  [j \in 1..(Len(a) + Len(o)) |-> IF j % 2 = 1 THEN a[(j + 1) \div 2] ELSE LOp(o[j \div 2])]
IsChain(t) ==
  \E k \in 1..MaxChainOps :
    \E a \in [1..(k + 1) -> Operands], o \in [1..k -> BinReprs] : t = Chain(a, o)

RECURSIVE Parens(_, _)
Parens(t, d) == IF d = 0 THEN t ELSE <<LOpen>> \o Parens(t, d - 1) \o <<LClose>>
IsNested(t) ==
  \E k \in 1..MaxInner :
    \E inner \in [1..k -> Alphabet], pre \in {<<>>, <<LOp("-")>>} :
      t = pre \o Parens(inner, MaxDepth)

\* ( inner ) operator lexeme
IsGrouped(t) ==
  \E k \in 1..MaxGroup :
    \E inner \in [1..k -> Alphabet], r \in BinReprs \cup {"abs"}, l \in Alphabet :
      t = <<LOpen>> \o inner \o <<LClose, LOp(r), l>>

\* unary operators in front of an operand, of ( operand ) or of
\* ( operand operator literal )
UnaryReprs == {"-", "+", "abs"}
UnaryArgs ==
  {<<a>> : a \in Operands} \cup {<<LOpen, a, LClose>> : a \in Operands}
    \cup {<<LOpen, a, LOp(r), b, LClose>> : a \in Operands, r \in {"-", "*"}, b \in Literals}
IsUnaryChain(t) ==
  \E n \in 1..MaxUnary :
    \E u \in [1..n -> UnaryReprs], arg \in UnaryArgs : t = [j \in 1..n |-> LOp(u[j])] \o arg

\* an arbitrary text, a chain, a nested text, a group with a tail or a unary
\* chain
IsText(t) ==
  \/ \E k \in 1..MaxLen : t \in [1..k -> Alphabet]
  \/ IsChain(t)
  \/ IsNested(t)
  \/ IsGrouped(t)
  \/ IsUnaryChain(t)

LifeAlphabet == {LNum(2), LVar("x", FALSE), LVar("y", FALSE), LOp("+"), LOp("-"), LOp("*")}
IsLifeText(t) == \E k \in 1..MaxLifeLen : t \in [1..k -> LifeAlphabet]

BindVals == {-3, 2}
Bindings(n) == [1..n -> BindVals]
AnyBindings == Seqs0(BindVals, MaxBind)

\* operator tables handed to parse
OperatorTables == {MakeOperators, StaggeredOperators}

\* operands and operators handed to DeepEx::new
NodeAlphabet == {Num(3), Num(4), Var(0, "x")}
OpAlphabet == {BinOp("add", 1, TRUE), BinOp("sub", 1, FALSE),
               BinOp("sub", 2, FALSE), BinOp("mul", 2, TRUE)}
repr_of(op) == CASE op.apply = "add" -> "+" [] op.apply = "sub" -> "-"
                 [] op.apply = "mul" -> "*" [] op.apply = "pow" -> "^"
IsDeepInput(i) ==
  \E k \in 1..MaxNodes :
    \E ns \in [1..k -> NodeAlphabet], os \in [1..(k - 1) -> OpAlphabet] :
      i = [nodes |-> ns,
           bin_ops |-> BinOpsWithReprs([j \in 1..Len(os) |-> repr_of(os[j])], os)]

\* ------------------------------------------------------------------- state
VARIABLES
  text,      \* the input text
  input,     \* the operands and operators handed to DeepEx::new, or the
             \* operator table handed to parse
  deepex,    \* the result of parse or of DeepEx::new
  unparsed,  \* the result of unparsing deepex
  reparsed,  \* the result of parsing unparsed
  expr,      \* the FlatEx or OwnedFlatEx the caller holds
  last,      \* the last operation and its argument
  out,       \* what the last operation returned
  prev,      \* the expression before the last operation
  steps      \* successful derivations so far

vars == <<text, input, deepex, unparsed, reparsed, expr, last, out, prev, steps>>

Unused == <<>>
NoExpr == [kind |-> "none"]

\* --------------------------------------------------- DeepEx::new and compile
InitCompile ==
  /\ IsDeepInput(input)
  /\ deepex = Unused
  /\ last = "init"
  /\ text = Unused /\ unparsed = Unused /\ reparsed = Unused
  /\ expr = NoExpr /\ out = Unused /\ prev = NoExpr /\ steps = 0

\* DeepEx::new(nodes, bin_ops, UnaryOpWithReprs::new())
New ==
  /\ last = "init"
  /\ deepex' = DeepEx_new(input.nodes, input.bin_ops, UnaryOpWithReprs_new)
  /\ last' = "new"
  /\ UNCHANGED <<text, input, unparsed, reparsed, expr, out, prev, steps>>

\* deepex.compile() on an expression that was already built
Compile ==
  /\ last # "init"
  /\ deepex.ok
  /\ deepex' = IF compile_panics(deepex.v) THEN Panic ELSE Ok(compile(deepex.v))
  /\ last' = "compile"
  /\ UNCHANGED <<text, input, unparsed, reparsed, expr, out, prev, steps>>

NextCompile == New \/ Compile

\* ------------------------------------------- operate_bin and operate_unary
\* Operands and operators as a caller can hand them to DeepEx::new: any
\* number of operators, with as many representations, one less or one more.
OperateNodes == {Num(3), Var(0, "x")}
OperateOps == {BinOp("add", 1, TRUE), BinOp("mul", 2, TRUE)}
IsOperateInput(i) ==
  \E k \in 1..MaxOpNodes, m \in 0..MaxOpNodes :
    \E ns \in [1..k -> OperateNodes], os \in [1..m -> OperateOps], d \in {-1, 0, 1} :
      /\ m + d >= 0
      /\ i = [nodes |-> ns,
              bin_ops |-> BinOpsWithReprs(
                            [j \in 1..(m + d) |-> IF j <= m THEN repr_of(os[j]) ELSE "+"], os)]

\* the second operand and the operator lists handed to operate_bin
OperateOthers ==
  {DeepEx_from_node(Num(4)),
   DeepEx_new(<<Var(0, "y"), Num(3)>>, BinOpsWithReprs(<<"*">>, <<BinOp("mul", 2, TRUE)>>),
              UnaryOpWithReprs_new).v,
   DeepEx_new(<<Var(0, "y")>>, BinOpsWithReprs_new, UnaryOpWithReprs(<<"-">>, <<"neg">>)).v}
OperateBinOps ==
  {BinOpsWithReprs(<<"+">>, <<BinOp("add", 1, TRUE)>>),
   BinOpsWithReprs(<<"+", "+">>, <<BinOp("add", 1, TRUE)>>),
   BinOpsWithReprs(<<>>, <<>>)}
OperateUnaryOps == {UnaryOpWithReprs(<<"-">>, <<"neg">>)}

InitOperate ==
  /\ IsOperateInput(input)
  /\ deepex = Unused
  /\ last = "init"
  /\ text = Unused /\ unparsed = Unused /\ reparsed = Unused
  /\ expr = NoExpr /\ out = Unused /\ prev = NoExpr /\ steps = 0

\* deepex.operate_bin(other, bin_op)
OperateBin(other, bin_op) ==
  /\ last # "init"
  /\ deepex.ok
  /\ steps < MaxOperate
  /\ deepex' = IF operate_bin_panics(deepex.v, other, bin_op) THEN Panic
               ELSE Ok(operate_bin(deepex.v, other, bin_op))
  /\ last' = "operate_bin"
  /\ steps' = steps + 1
  /\ UNCHANGED <<text, input, unparsed, reparsed, expr, out, prev>>

\* deepex.operate_unary(unary_op)
OperateUnary(unary_op) ==
  /\ last # "init"
  /\ deepex.ok
  /\ steps < MaxOperate
  /\ deepex' = IF compile_panics([deepex.v EXCEPT
                                   !.unary_op = append_front(deepex.v.unary_op, unary_op)])
               THEN Panic
               ELSE Ok(operate_unary(deepex.v, unary_op))
  /\ last' = "operate_unary"
  /\ steps' = steps + 1
  /\ UNCHANGED <<text, input, unparsed, reparsed, expr, out, prev>>

NextOperate ==
  \/ New
  \/ Compile
  \/ \E other \in OperateOthers, bin_op \in OperateBinOps : OperateBin(other, bin_op)
  \/ \E unary_op \in OperateUnaryOps : OperateUnary(unary_op)

SpecOperate == InitOperate /\ [][NextOperate]_vars

SpecCompile == InitCompile /\ [][NextCompile]_vars

\* ------------------------------------------------------- parse and unparse
InitParse ==
  /\ IsText(text)
  /\ deepex = Unused
  /\ unparsed = Unused
  /\ reparsed = Unused
  /\ last = "init"
  /\ input \in OperatorTables
  /\ expr = NoExpr /\ out = Unused /\ prev = NoExpr /\ steps = 0

\* DeepEx::from_ops(text, ops)
Parse ==
  /\ last = "init"
  /\ deepex' = parse(text, input)
  /\ last' = "parse"
  /\ UNCHANGED <<text, input, unparsed, reparsed, expr, out, prev, steps>>

\* deepex.unparse()
Unparse ==
  /\ last = "parse"
  /\ deepex.ok
  /\ unparsed' = DeepEx_unparse(deepex.v)
  /\ last' = "unparse"
  /\ UNCHANGED <<text, input, deepex, reparsed, expr, out, prev, steps>>

\* DeepEx::from_ops(unparsed, ops)
Reparse ==
  /\ last = "unparse"
  /\ reparsed' = parse(unparsed, input)
  /\ last' = "reparse"
  /\ UNCHANGED <<text, input, deepex, unparsed, expr, out, prev, steps>>

NextParse == Parse \/ Unparse \/ Reparse

SpecParse == InitParse /\ [][NextParse]_vars

\* ------------------------------------------------ parentheses without prefix
\* a body of one to three operands, in up to MaxDepth layers of parentheses,
\* alone or as the left or right operand of an operator
LiftOperands == {LNum(2), LVar("x", FALSE), LVar("y", FALSE)}
LiftReprs == {"+", "*"}
LiftBodies ==
  {Chain(a, o) : a \in [1..1 -> LiftOperands], o \in {<<>>}}
    \cup {Chain(a, o) : a \in [1..2 -> LiftOperands], o \in [1..1 -> LiftReprs]}
    \cup {Chain(a, o) : a \in [1..3 -> LiftOperands], o \in [1..2 -> LiftReprs]}
IsLiftText(t) ==
  \E body \in LiftBodies, d \in 0..MaxDepth :
    \/ t = Parens(body, d)
    \/ \E c \in LiftOperands, r \in LiftReprs :
         \/ t = <<c, LOp(r)>> \o Parens(body, d)
         \/ t = Parens(body, d) \o <<LOp(r), c>>

InitLift ==
  /\ IsLiftText(text)
  /\ deepex = Unused
  /\ unparsed = Unused
  /\ reparsed = Unused
  /\ last = "init"
  /\ input = MakeOperators
  /\ expr = NoExpr /\ out = Unused /\ prev = NoExpr /\ steps = 0

SpecLift == InitLift /\ [][NextParse]_vars

\* ------------------------------------------- the expression and its operations
Init ==
  /\ IsLifeText(text)
  /\ expr = NoExpr
  /\ last = [name |-> "init"]
  /\ out = Unused
  /\ prev = NoExpr
  /\ steps = 0
  /\ input = Unused /\ deepex = Unused /\ unparsed = Unused /\ reparsed = Unused

Held == expr.kind # "none"
IsOwned == expr.kind = "OwnedFlatEx"

\* FlatEx::from_str(text)
FromStr ==
  /\ ~Held
  /\ \E r \in {FlatEx_from_str(text)} :
         /\ expr' = IF r.ok THEN [kind |-> "FlatEx", ex |-> r.v] ELSE NoExpr
         /\ out' = IF r.ok THEN Ok("expression") ELSE r
  /\ last' = [name |-> "from_str"]
  /\ prev' = expr
  /\ UNCHANGED <<text, input, deepex, unparsed, reparsed, steps>>

\* OwnedFlatEx::from_str(text)
OwnedFromStr ==
  /\ ~Held
  /\ \E r \in {OwnedFlatEx_from_str(text)} :
         /\ expr' = IF r.ok THEN [kind |-> "OwnedFlatEx", ex |-> r.v] ELSE NoExpr
         /\ out' = IF r.ok THEN Ok("expression") ELSE r
  /\ last' = [name |-> "owned_from_str"]
  /\ prev' = expr
  /\ UNCHANGED <<text, input, deepex, unparsed, reparsed, steps>>

\* OwnedFlatEx::from_flatex(flatex)
FromFlatex ==
  /\ expr.kind = "FlatEx"
  /\ expr' = [kind |-> "OwnedFlatEx", ex |-> OwnedFlatEx_from_flatex(expr.ex)]
  /\ out' = Ok("expression")
  /\ last' = [name |-> "from_flatex"]
  /\ prev' = expr
  /\ UNCHANGED <<text, input, deepex, unparsed, reparsed, steps>>

Expression_eval(e, bindings) ==
  IF e.kind = "FlatEx" THEN FlatEx_eval(e.ex, bindings) ELSE OwnedFlatEx_eval(e.ex, bindings)
Expression_unparse(e) ==
  IF e.kind = "FlatEx" THEN FlatEx_unparse(e.ex) ELSE OwnedFlatEx_unparse(e.ex)
Expression_partial(e, var_idx) ==
  IF e.kind = "FlatEx" THEN FlatEx_partial(e.ex, var_idx) ELSE OwnedFlatEx_partial(e.ex, var_idx)
Expression_reduce_memory(e) ==
  IF e.kind = "FlatEx" THEN FlatEx_reduce_memory(e.ex) ELSE OwnedFlatEx_reduce_memory(e.ex)

\* expr.eval(&bindings)
Eval(bindings) ==
  /\ Held
  /\ out' = Expression_eval(expr, bindings)
  /\ last' = [name |-> "eval", arg |-> bindings]
  /\ prev' = expr
  /\ UNCHANGED <<text, input, deepex, unparsed, reparsed, expr, steps>>

\* expr.unparse()
ExprUnparse ==
  /\ Held
  /\ out' = Expression_unparse(expr)
  /\ last' = [name |-> "unparse"]
  /\ prev' = expr
  /\ UNCHANGED <<text, input, deepex, unparsed, reparsed, expr, steps>>

\* format!("{}", expr)
Display ==
  /\ Held
  /\ out' = Display_fmt(Expression_unparse(expr))
  /\ last' = [name |-> "display"]
  /\ prev' = expr
  /\ UNCHANGED <<text, input, deepex, unparsed, reparsed, expr, steps>>

\* expr.reduce_memory()
ReduceMemory ==
  /\ Held
  /\ expr' = [expr EXCEPT !.ex = Expression_reduce_memory(expr)]
  /\ out' = Unused
  /\ last' = [name |-> "reduce_memory"]
  /\ prev' = expr
  /\ UNCHANGED <<text, input, deepex, unparsed, reparsed, steps>>

\* expr.partial(var_idx): the expression is moved into the call
Partial(var_idx) ==
  /\ Held
  /\ steps < MaxPartial
  /\ \E r \in {Expression_partial(expr, var_idx)} :
         /\ expr' = IF r.ok THEN [expr EXCEPT !.ex = r.v] ELSE NoExpr
         /\ out' = IF r.ok THEN Ok("expression") ELSE r
         /\ steps' = IF r.ok THEN steps + 1 ELSE steps
  /\ last' = [name |-> "partial", arg |-> var_idx]
  /\ prev' = expr
  /\ UNCHANGED <<text, input, deepex, unparsed, reparsed>>

Next ==
  \/ FromStr
  \/ OwnedFromStr
  \/ FromFlatex
  \/ \E bindings \in AnyBindings : Eval(bindings)
  \/ ExprUnparse
  \/ Display
  \/ ReduceMemory
  \/ \E var_idx \in 0..MaxBind : Partial(var_idx)

Spec == Init /\ [][Next]_vars

\* ------------------------------------------------ derivatives of sums
\* u + v and u - v, where u and v are an operand, a product, a negated operand
\* or a sum or difference in parentheses
TermOperands == {LNum(2), LVar("x", FALSE), LVar("y", FALSE)}
Terms ==
  {<<a>> : a \in TermOperands}
    \cup {<<a, LOp("*"), b>> : a \in TermOperands, b \in TermOperands}
    \cup {<<LOp("-"), a>> : a \in TermOperands}
    \cup {<<LOpen, a, LOp(r), b, LClose>> : a \in TermOperands, r \in {"+", "-"}, b \in TermOperands}

InitLinear ==
  /\ \E u \in Terms, v \in Terms, r \in {"+", "-"} :
       /\ text = u \o <<LOp(r)>> \o v
       /\ input = [u |-> u, op |-> r, v |-> v]
  /\ expr = NoExpr
  /\ last = [name |-> "init"]
  /\ out = Unused
  /\ prev = NoExpr
  /\ steps = 0
  /\ deepex = Unused /\ unparsed = Unused /\ reparsed = Unused

NextLinear ==
  \/ FromStr
  \/ \E var_idx \in 0..MaxBind : Partial(var_idx)

SpecLinear == InitLinear /\ [][NextLinear]_vars

\* ------------------------------------------------------- var_names_union
\* two expressions are parsed and handed to var_names_union
UnionTexts ==
  Terms \cup {<<a, LOp("-"), LOpen, LOp("-"), b, LOp("*"), c, LClose>> :
                 a \in TermOperands \ {LNum(2)}, b \in TermOperands \ {LNum(2)},
                 c \in TermOperands \ {LNum(2)}}

InitUnion ==
  /\ \E first \in UnionTexts, second \in UnionTexts : text = <<first, second>>
  /\ input = MakeOperators
  /\ last = "init"
  /\ prev = Unused
  /\ out = Unused
  /\ deepex = Unused /\ unparsed = Unused /\ reparsed = Unused
  /\ expr = NoExpr /\ steps = 0

\* first = DeepEx::from_ops(str_1, ops), second = DeepEx::from_ops(str_2, ops)
ParseBoth ==
  /\ last = "init"
  /\ prev' = <<parse(text[1], input), parse(text[2], input)>>
  /\ last' = "parse"
  /\ UNCHANGED <<text, input, deepex, unparsed, reparsed, expr, out, steps>>

\* first.var_names_union(second)
VarNamesUnion ==
  /\ last = "parse"
  /\ prev[1].ok /\ prev[2].ok
  /\ out' = var_names_union(prev[1].v, prev[2].v)
  /\ last' = "var_names_union"
  /\ UNCHANGED <<text, input, deepex, unparsed, reparsed, expr, prev, steps>>

NextUnion == ParseBoth \/ VarNamesUnion

SpecUnion == InitUnion /\ [][NextUnion]_vars

\* ------------------------------------------- make_expression, step by step
\* The loop of make_expression with its calls, one iteration, call or return
\* per step. prev is the stack of calls: for each the slice it was given (base
\* and len within the tokens of the text), idx_tkn, the numbers of nodes and
\* binary operators pushed so far, whether the loop was left by break, and
\* extra, what the caller adds to the count returned. out is what the
\* outermost call returns.
BuildTokens == tokenize_and_analyze(text, input).v
Frame(base, len, extra) ==
  [base |-> base, len |-> len, extra |-> extra, idx_tkn |-> 0, n_nodes |-> 0, n_ops |-> 0,
   done |-> FALSE]
Top == prev[Len(prev)]
TokenAt(f, j) == BuildTokens[f.base + j + 1]
InLoop(f) == f.idx_tkn < f.len /\ ~f.done

InitBuild ==
  /\ \E k \in 1..MaxLen :
       text \in [1..k -> {LNum(2), LVar("x", FALSE), LOp("-"), LOp("*"), LOp("abs"),
                          LOpen, LClose}]
  /\ input = MakeOperators
  /\ prev = <<Frame(0, Len(text), 0)>>
  /\ last = "call"
  /\ out = Unused
  /\ deepex = Unused /\ unparsed = Unused /\ reparsed = Unused
  /\ expr = NoExpr /\ steps = 0

\* the outermost call returns, with a result, an error or a panic
Finish(result) ==
  /\ out' = result
  /\ last' = "done"
  /\ UNCHANGED <<text, input, deepex, unparsed, reparsed, expr, prev, steps>>

Continue(stack, name) ==
  /\ prev' = stack
  /\ last' = name
  /\ UNCHANGED <<text, input, deepex, unparsed, reparsed, expr, out, steps>>

IsBinaryHere(f) ==
  f.idx_tkn > 0 /\ is_operator_binary(TokenAt(f, f.idx_tkn).op, TokenAt(f, f.idx_tkn - 1))

\* ParsedToken::Op taken as binary operator
BinaryStep ==
  /\ last # "done" /\ InLoop(Top)
  /\ TokenAt(Top, Top.idx_tkn).k = "Op"
  /\ IsBinaryHere(Top)
  /\ IF ~has_bin(TokenAt(Top, Top.idx_tkn).op) THEN Finish(Err("operator is not binary"))
     ELSE Continue([prev EXCEPT ![Len(prev)].n_ops = @ + 1, ![Len(prev)].idx_tkn = @ + 1],
                   "iterate")

\* ParsedToken::Op taken as unary operator: process_unary
UnaryStep ==
  /\ last # "done" /\ InLoop(Top)
  /\ TokenAt(Top, Top.idx_tkn).k = "Op"
  /\ ~IsBinaryHere(Top)
  /\ IF ~has_unary(TokenAt(Top, Top.idx_tkn).op) THEN Finish(Err("operator is not unary"))
     ELSE \E n_uops \in {1 + Len(gather_uops(SubSeq(BuildTokens, Top.base + 1, Top.base + Top.len),
                                               Top.idx_tkn + 1))} :
            IF Top.idx_tkn + n_uops >= Top.len THEN Finish(Panic)
            ELSE \E t \in {TokenAt(Top, Top.idx_tkn + n_uops)} :
                   CASE t.k = "Paren" ->
                          Continue(Append(prev, Frame(Top.base + Top.idx_tkn + n_uops + 1,
                                                      Top.len - (Top.idx_tkn + n_uops + 1),
                                                      n_uops + 1)),
                                   "call")
                     [] t.k \in {"Var", "Num"} ->
                          Continue([prev EXCEPT ![Len(prev)].n_nodes = @ + 1,
                                                ![Len(prev)].idx_tkn = @ + n_uops + 1],
                                   "iterate")
                     [] OTHER -> Finish(Err("Invalid parsed token configuration"))

\* ParsedToken::Num, ParsedToken::Var
OperandStep ==
  /\ last # "done" /\ InLoop(Top)
  /\ TokenAt(Top, Top.idx_tkn).k \in {"Num", "Var"}
  /\ Continue([prev EXCEPT ![Len(prev)].n_nodes = @ + 1, ![Len(prev)].idx_tkn = @ + 1],
              "iterate")

\* Paren::Open: the call for the rest of the slice
OpenStep ==
  /\ last # "done" /\ InLoop(Top)
  /\ IsOpen(TokenAt(Top, Top.idx_tkn))
  /\ Continue(Append(prev, Frame(Top.base + Top.idx_tkn + 1, Top.len - (Top.idx_tkn + 1), 1)),
              "call")

\* mutation: a closing parenthesis is neither counted nor left
after_close_stays(f) == f

\* Paren::Close: idx_tkn += 1; break
after_close(f) == [f EXCEPT !.idx_tkn = @ + 1, !.done = TRUE]

CloseStep ==
  /\ last # "done" /\ InLoop(Top)
  /\ IsClose(TokenAt(Top, Top.idx_tkn))
  /\ Continue([prev EXCEPT ![Len(prev)] = after_close(Top)], "iterate")

\* after the loop: DeepEx::new, and the return of (expression, idx_tkn) to
\* the caller, which pushes the node and moves on by the count and extra
Return ==
  /\ last # "done" /\ ~InLoop(Top)
  /\ IF Top.n_nodes # Top.n_ops + 1
     THEN Finish(Err("mismatch between number of nodes and binary operators"))
     ELSE IF Len(prev) = 1 THEN Finish(Ok(Top.idx_tkn))
     ELSE Continue([SubSeq(prev, 1, Len(prev) - 1) EXCEPT
                      ![Len(prev) - 1].n_nodes = @ + 1,
                      ![Len(prev) - 1].idx_tkn = @ + Top.idx_tkn + Top.extra],
                   "return")

NextBuild == BinaryStep \/ UnaryStep \/ OperandStep \/ OpenStep \/ CloseStep \/ Return

\* the program runs on: no step waits for anything
SpecBuild == InitBuild /\ [][NextBuild]_vars /\ WF_vars(NextBuild)

\* ================================================================== claims
\* the reference value of an operand/operator sequence: the leftmost operator
\* of the highest priority is applied first, until one value is left
RECURSIVE RefReduce(_, _)
RefReduce(numbers, ops) ==
  IF ops = <<>> THEN numbers[1]
  ELSE LET top == CHOOSE i \in 1..Len(ops) :
                    /\ \A j \in 1..Len(ops) : ops[j].prio <= ops[i].prio
                    /\ \A j \in 1..(i - 1) : ops[j].prio < ops[i].prio
           v == ApplyBin(ops[top].apply, numbers[top], numbers[top + 1])
       IN  RefReduce(Remove(SetAt(numbers, top - 1, v), top), Remove(ops, top - 1))

OperandValue(node, bindings) == IF node.k = "Num" THEN node.v ELSE bindings[node.idx + 1]

RefValue(nodes, ops, bindings) ==
  RefReduce([j \in 1..Len(nodes) |-> OperandValue(nodes[j], bindings)], ops)

\* C1: the expression DeepEx::new returns (lifted and folded by compile)
\* evaluates, on every binding, to the value of the operand/operator sequence
\* it was built from, highest priority first and ties left to right.
C1_CompilePreservesValue ==
  (last = "new" /\ deepex.ok) =>
    \A bindings \in Bindings(1) :
      eval(deepex.v, bindings) = Ok(RefValue(input.nodes, input.bin_ops.ops, bindings))


\* what a text says, read off the lexemes alone
IsOperandLex(l) == l.k = "num" \/ l.k = "var"
IsBinLex(l) == l.k = "op" /\ has_bin(find_op(input, l.repr))
IsUnaryLex(l) == l.k = "op" /\ has_unary(find_op(input, l.repr))
TextNames(t) == {t[j].name : j \in {i \in 1..Len(t) : t[i].k = "var"}}
SortedNames(S) ==
  CHOOSE s \in Seqs0(VarNames, Cardinality(VarNames)) :
    /\ Len(s) = Cardinality(S)
    /\ Range(s) = S
    /\ \A i \in 1..Len(s) : \A j \in (i + 1)..Len(s) : NameLess(s[i], s[j])
NameIndex(name, names) == CHOOSE j \in 1..Len(names) : names[j] = name
LexValue(l, t, bindings) ==
  IF l.k = "num" THEN l.digits ELSE bindings[NameIndex(l.name, SortedNames(TextNames(t)))]
TextBindings(t) == Bindings(Cardinality(TextNames(t)))
BinApply(l, a, b) == ApplyBin(find_op(input, l.repr).bin_op[1].apply, a, b)
UnApply(l, a) == ApplyUn(find_op(input, l.repr).unary_op[1], a)
PrioOf(l) == find_op(input, l.repr).bin_op[1].prio
ParsedValue(bindings) == FlatEx_eval(flatten(deepex.v), bindings)

IsTwoOpChain(t) ==
  /\ Len(t) = 5
  /\ IsOperandLex(t[1]) /\ IsBinLex(t[2]) /\ IsOperandLex(t[3]) /\ IsBinLex(t[4])
  /\ IsOperandLex(t[5])

\* C2: a op1 b op2 c evaluates to (a op1 b) op2 c when prio(op1) >= prio(op2)
\* and to a op1 (b op2 c) when prio(op1) < prio(op2), for literal and
\* variable operands and every binding.
C2_PriorityRespect ==
  (last = "parse" /\ IsTwoOpChain(text)) =>
    /\ deepex.ok
    /\ \A bindings \in TextBindings(text) :
         LET a == LexValue(text[1], text, bindings)
             b == LexValue(text[3], text, bindings)
             c == LexValue(text[5], text, bindings)
         IN  ParsedValue(bindings) =
               Ok(IF PrioOf(text[2]) >= PrioOf(text[4])
                  THEN BinApply(text[4], BinApply(text[2], a, b), c)
                  ELSE BinApply(text[2], a, BinApply(text[4], b, c)))

\* C3: a valid text without variables parses to one literal node without a
\* unary prefix, and its flat node sequence is that one literal.
C3_ConstantFoldingTotal ==
  (last = "parse" /\ deepex.ok /\ TextNames(text) = {}) =>
    /\ Len(deepex.v.nodes) = 1
    /\ deepex.v.nodes[1].k = "Num"
    /\ deepex.v.bin_ops.ops = <<>>
    /\ deepex.v.unary_op.op = <<>>
    /\ deepex.v.unary_op.reprs = <<>>
    /\ Len(flatten(deepex.v).nodes) = 1
    /\ flatten(deepex.v).nodes[1].kind.k = "Num"
    /\ flatten(deepex.v).ops = <<>>

\* C4: the unparsed text of a parsed expression parses, declares the same
\* variable list and evaluates to the same value on every binding.
C4_RoundTrip ==
  last = "reparse" =>
    /\ reparsed.ok
    /\ reparsed.v.var_names = deepex.v.var_names
    /\ \A bindings \in Bindings(n_vars(deepex.v)) :
         FlatEx_eval(flatten(reparsed.v), bindings) = ParsedValue(bindings)

\* every variable node of a deep expression, nested ones included
RECURSIVE VarNodes(_)
VarNodes(d) ==
  UNION {CASE d.nodes[j].k = "Var" -> {d.nodes[j]}
           [] d.nodes[j].k = "Expr" -> VarNodes(d.nodes[j].e)
           [] OTHER -> {} : j \in 1..Len(d.nodes)}

\* C5: the variable list of a parsed expression is sorted, free of duplicates
\* and holds exactly the names written in the text (bare or in curly braces);
\* every variable is read from the binding at the position of its name.
C5_VariableOrdering ==
  (last = "parse" /\ deepex.ok) =>
    /\ deepex.v.var_names = SortedNames(TextNames(text))
    /\ flatten(deepex.v).n_unique_vars = Cardinality(TextNames(text))
    /\ \A n \in VarNodes(deepex.v) :
         n.idx + 1 = NameIndex(n.name, SortedNames(TextNames(text)))
    /\ \A bindings \in TextBindings(text) :
         Len(text) = 1 => ParsedValue(bindings) = Ok(LexValue(text[1], text, bindings))


\* -((2+7)) is parsed to the literal -9
C3_Witness ==
  /\ last = "parse"
  /\ text = <<LOp("-"), LOpen, LOpen, LNum(2), LOp("+"), LNum(7), LClose, LClose>>
  /\ deepex.ok
  /\ deepex.v.nodes = <<Num(-9)>>

\* y*x+{x} declares x, y
C5_Witness ==
  /\ last = "parse"
  /\ text = <<LVar("y", FALSE), LOp("*"), LVar("x", FALSE), LOp("+"), LVar("x", TRUE)>>
  /\ deepex.ok
  /\ deepex.v.var_names = <<"x", "y">>

\* ---------------------------------------------- the expression the caller holds
HasCache(e) ==
  IF e.kind = "FlatEx" THEN is_some(e.ex.deepex) ELSE is_some(e.ex.deepex_buf)
UnparseImpossible == "unparse impossible, since deep expression optimized away"

\* C6: eval returns an error when the slice has another length than the
\* declared variable count and a value when the lengths are equal, for a
\* FlatEx and for an OwnedFlatEx.
C6_EvalBindingCount ==
  last.name = "eval" =>
    /\ out.ok <=> Len(last.arg) = expr.ex.n_unique_vars
    /\ steps = 0 => expr.ex.n_unique_vars = Cardinality(TextNames(text))

\* an OwnedFlatEx of one variable refuses two bindings
C6_Witness ==
  /\ last.name = "eval"
  /\ IsOwned
  /\ expr.ex.n_unique_vars = 1
  /\ Len(last.arg) = 2
  /\ ~out.ok

\* C7: reduce_memory changes the deep cache only: nodes, operators, priority
\* order and declared variable count stay, and eval returns what it returned
\* before, a value for every binding of the declared length.
C7_ReduceMemoryFrame ==
  last.name = "reduce_memory" =>
    /\ expr.kind = prev.kind
    /\ expr.ex.nodes = prev.ex.nodes
    /\ expr.ex.ops = prev.ex.ops
    /\ expr.ex.prio_indices = prev.ex.prio_indices
    /\ expr.ex.n_unique_vars = prev.ex.n_unique_vars
    /\ \A bindings \in AnyBindings :
         /\ Expression_eval(expr, bindings) = Expression_eval(prev, bindings)
         /\ Len(bindings) = prev.ex.n_unique_vars => Expression_eval(expr, bindings).ok

\* a FlatEx of two variables lost its cache
C7_Witness ==
  /\ last.name = "reduce_memory"
  /\ expr.kind = "FlatEx"
  /\ HasCache(prev)
  /\ ~HasCache(expr)
  /\ expr.ex.n_unique_vars = 2

RECURSIVE OpPositions(_, _)
OpPositions(t, j) ==
  IF j > Len(t) THEN <<>>
  ELSE (IF t[j].k = "op" THEN <<j>> ELSE <<>>) \o OpPositions(t, j + 1)

IsAmbiguousLex(l) == IsBinLex(l) /\ IsUnaryLex(l)
AfterOperand(t, j) == j > 1 /\ (IsOperandLex(t[j - 1]) \/ t[j - 1].k = "close")

\* C9: in a text that parses, an operator with both applications is taken as
\* binary exactly when the lexeme before it is a literal, a variable or a
\* closing parenthesis, and as unary anywhere else.
C9_UnaryBinaryDisambiguation ==
  (last = "parse" /\ deepex.ok) =>
    LET pos == OpPositions(text, 1)
    IN  /\ Len(deepex.log) = Len(pos)
        /\ \A k \in 1..Len(pos) :
             IsAmbiguousLex(text[pos[k]]) =>
               (deepex.log[k] = "binary" <=> AfterOperand(text, pos[k]))

\* C10: a unary operator applies to the operand right after it before any
\* binary operator does: u a op b is op(u(a), b) and a op u b is op(a, u(b)),
\* for literals and variables, and u ((a op b)) is u(op(a, b)).
C10_UnaryBindsTighter ==
  last = "parse" =>
    /\ (/\ Len(text) = 4 /\ IsUnaryLex(text[1]) /\ IsOperandLex(text[2])
        /\ IsBinLex(text[3]) /\ IsOperandLex(text[4])) =>
         /\ deepex.ok
         /\ \A bindings \in TextBindings(text) :
              ParsedValue(bindings) =
                Ok(BinApply(text[3], UnApply(text[1], LexValue(text[2], text, bindings)),
                            LexValue(text[4], text, bindings)))
    /\ (/\ Len(text) = 4 /\ IsOperandLex(text[1]) /\ IsBinLex(text[2])
        /\ IsUnaryLex(text[3]) /\ IsOperandLex(text[4])) =>
         /\ deepex.ok
         /\ \A bindings \in TextBindings(text) :
              ParsedValue(bindings) =
                Ok(BinApply(text[2], LexValue(text[1], text, bindings),
                            UnApply(text[3], LexValue(text[4], text, bindings))))
    /\ (/\ Len(text) = 8 /\ IsUnaryLex(text[1]) /\ IsOperandLex(text[4])
        /\ IsBinLex(text[5]) /\ IsOperandLex(text[6])
        /\ text = <<text[1]>> \o Parens(<<text[4], text[5], text[6]>>, 2)) =>
         /\ deepex.ok
         /\ \A bindings \in TextBindings(text) :
              ParsedValue(bindings) =
                Ok(UnApply(text[1], BinApply(text[5], LexValue(text[4], text, bindings),
                                             LexValue(text[6], text, bindings))))

\* -2^2 is 4
C10_Witness ==
  /\ last = "parse"
  /\ text = <<LOp("-"), LNum(2), LOp("^"), LNum(2)>>
  /\ deepex.ok
  /\ ParsedValue(<<>>) = Ok(4)

\* ------------------------------------------------------------------ C11
\* the number of operator lexemes a text starts with
RECURSIVE LeadingOps(_)
LeadingOps(t) == IF t # <<>> /\ Head(t).k = "op" THEN 1 + LeadingOps(Tail(t)) ELSE 0

\* the value of an operand, of ( operand ) or of ( operand operator operand )
ArgValue(arg, t, bindings) ==
  CASE Len(arg) = 1 -> LexValue(arg[1], t, bindings)
    [] Len(arg) = 3 -> LexValue(arg[2], t, bindings)
    [] Len(arg) = 5 -> BinApply(arg[3], LexValue(arg[2], t, bindings),
                                LexValue(arg[4], t, bindings))

\* u1(u2(...un(v)...)) for the operator lexemes us = u1 .. un
RECURSIVE ChainValue(_, _)
ChainValue(us, v) == IF us = <<>> THEN v ELSE UnApply(Head(us), ChainValue(Tail(us), v))

\* unary operators in front of an operand, of ( operand ) or of
\* ( operand operator operand )
HasUnaryChainShape(t) ==
  LET n == LeadingOps(t)
      arg == SubSeq(t, n + 1, Len(t))
  IN  /\ n >= 1
      /\ \A j \in 1..n : IsUnaryLex(t[j])
      /\ \/ Len(arg) = 1 /\ IsOperandLex(arg[1])
         \/ Len(arg) = 3 /\ arg[1] = LOpen /\ IsOperandLex(arg[2]) /\ arg[3] = LClose
         \/ /\ Len(arg) = 5 /\ arg[1] = LOpen /\ arg[5] = LClose
            /\ IsOperandLex(arg[2]) /\ IsBinLex(arg[3]) /\ IsOperandLex(arg[4])

\* the number of "-" among lexemes
RECURSIVE Minuses(_)
Minuses(us) ==
  IF us = <<>> THEN 0 ELSE (IF Head(us) = LOp("-") THEN 1 ELSE 0) + Minuses(Tail(us))

\* C11: unary operators u1 .. un in front of a literal, a variable or a group
\* evaluate to u1(u2(...un(operand)...)), the leftmost applied last; n minus
\* signs in front of a literal c give c for even n and -c for odd n.
C11_UnaryChainOrder ==
  (last = "parse" /\ HasUnaryChainShape(text)) =>
    LET n == LeadingOps(text)
        us == SubSeq(text, 1, n)
        arg == SubSeq(text, n + 1, Len(text))
    IN  /\ deepex.ok
        /\ \A bindings \in TextBindings(text) :
             ParsedValue(bindings) = Ok(ChainValue(us, ArgValue(arg, text, bindings)))
        /\ (Minuses(us) = n /\ Len(arg) = 1 /\ arg[1].k = "num") =>
             ParsedValue(<<>>) = Ok(IF n % 2 = 0 THEN arg[1].digits ELSE 0 - arg[1].digits)

C11_Witness ==
  /\ last = "parse"
  /\ text = <<LOp("-"), LOp("-"), LOp("-"), LOp("abs"), LOpen, LVar("x", FALSE), LOp("-"),
              LNum(7), LClose>>
  /\ deepex.ok
  /\ ParsedValue(<<2>>) = Ok(-5)

\* ------------------------------------------------------------------ C12
\* the count invariant, for an expression and every expression nested in it
RECURSIVE HasMatchingCounts(_)
HasMatchingCounts(d) ==
  /\ Len(d.nodes) = Len(d.bin_ops.ops) + 1
  /\ Len(d.bin_ops.ops) = Len(d.bin_ops.reprs)
  /\ \A j \in 1..Len(d.nodes) : d.nodes[j].k = "Expr" => HasMatchingCounts(d.nodes[j].e)

HasOwnReprs(bin_ops) ==
  /\ Len(bin_ops.reprs) = Len(bin_ops.ops)
  /\ \A j \in 1..Len(bin_ops.ops) : bin_ops.reprs[j] = repr_of(bin_ops.ops[j])

\* C12: DeepEx::new returns the mismatch error when the number of operands is
\* not the number of binary operators plus one; every expression that exists
\* after new, compile, operate_bin or operate_unary has one operand more than
\* it has binary operators and as many representations as operators, in
\* itself and in every nested expression; and a fold takes the
\* representation of the folded operator away with it: where every operator
\* came with its own representation, every operator left still has its own.
C12_NodeOperatorCount ==
  /\ (last = "new" /\ Len(input.nodes) # Len(input.bin_ops.ops) + 1)
       => deepex = Err("mismatch between number of nodes and binary operators")
  /\ (last # "init" /\ deepex.ok) => HasMatchingCounts(deepex.v)
  /\ (last \in {"new", "compile"} /\ deepex.ok /\ HasOwnReprs(input.bin_ops))
       => HasOwnReprs(deepex.v.bin_ops)

\* 3 + 3 * x with a spare representation, negated after x * 3 + 4 ... : the
\* first operator was folded by new, and operate_bin and operate_unary acted
C12_Witness ==
  /\ last = "operate_unary"
  /\ steps = 2
  /\ deepex.ok
  /\ input.nodes = <<Num(3), Num(3), Var(0, "x")>>
  /\ Len(input.bin_ops.reprs) = 3
  /\ Len(deepex.v.nodes) = 2
  /\ deepex.v.nodes[1].k = "Expr"
  /\ Len(deepex.v.nodes[1].e.nodes) = 2
  /\ Len(deepex.v.unary_op.op) = 1

\* ------------------------------------------------------------------ C13
\* opening minus closing parentheses among the first n lexemes
RECURSIVE ParenBalance(_, _)
ParenBalance(t, n) ==
  IF n = 0 THEN 0
  ELSE ParenBalance(t, n - 1)
         + (IF t[n].k = "open" THEN 1 ELSE IF t[n].k = "close" THEN -1 ELSE 0)

IsBalanced(t) ==
  /\ \A n \in 0..Len(t) : ParenBalance(t, n) >= 0
  /\ ParenBalance(t, Len(t)) = 0

\* C13: parse returns an error, and neither an expression nor a panic, for
\* every text whose parentheses do not balance and nest: an opening
\* parenthesis that is never closed, a closing one with none open before it,
\* a surplus closing one at the end.
C13_UnbalancedParentheses ==
  (last = "parse" /\ ~IsBalanced(text)) => (~deepex.ok /\ deepex # Panic)

\* ( 2 ) ) is refused
C13_Witness ==
  /\ last = "parse"
  /\ text = <<LOpen, LNum(2), LClose, LClose>>
  /\ ~IsBalanced(text)
  /\ ~deepex.ok
  /\ deepex # Panic

\* ------------------------------------------------------------------ C14
\* the occurrence at j is taken as binary / as unary (spec 4.3)
InBinaryPosition(t, j) ==
  IsBinLex(t[j]) /\ (IsUnaryLex(t[j]) => AfterOperand(t, j))
InUnaryPosition(t, j) ==
  IsUnaryLex(t[j]) /\ (IsBinLex(t[j]) => ~AfterOperand(t, j))

\* a binary-only operator with no operand on its left
LacksLeft(t, j) ==
  IsBinLex(t[j]) /\ ~IsUnaryLex(t[j]) /\ ~AfterOperand(t, j)
\* an operator in binary position with no operand on its right: the end of
\* the text, a closing parenthesis or an operator that cannot be unary
LacksRightOfBinary(t, j) ==
  /\ InBinaryPosition(t, j)
  /\ (j = Len(t) \/ t[j + 1].k = "close" \/ (t[j + 1].k = "op" /\ ~IsUnaryLex(t[j + 1])))
\* an operator in unary position followed by the end of the text or by a
\* closing parenthesis
LacksRightOfUnary(t, j) ==
  /\ InUnaryPosition(t, j)
  /\ (j = Len(t) \/ t[j + 1].k = "close")

LacksNeighbour(t) ==
  \E j \in 1..Len(t) :
    t[j].k = "op" /\ (LacksLeft(t, j) \/ LacksRightOfBinary(t, j) \/ LacksRightOfUnary(t, j))

\* C14: parse returns an error, and neither panics nor returns an expression,
\* whenever an operator occurrence lacks a required neighbour: a binary-only
\* operator with no operand on its left, an operator in binary position with
\* no operand on its right, an operator in unary position that is followed
\* by the end of the text or by a closing parenthesis.
C14_MissingNeighbour ==
  (last = "parse" /\ LacksNeighbour(text)) => (~deepex.ok /\ deepex # Panic)

\* ------------------------------------------------------------------ C15
\* C15: for a parsed FlatEx or OwnedFlatEx, before and after reduce_memory,
\* unparse returns the text that was parsed, lexeme for lexeme with bare
\* variable names left bare, and Display shows that text.
C15_UnparseIsInput ==
  (Held /\ steps = 0) =>
    /\ (last.name = "unparse" => out = Ok(text))
    /\ (last.name = "display" => out = text)

\* ------------------------------------------------------------------ C16
\* the variable list held in the deep cache of an expression
CacheVarNames(e) ==
  IF e.kind = "FlatEx" THEN e.ex.deepex[1].var_names ELSE e.ex.deepex_buf[1].var_names

CachePresent ==
  /\ (last.name \in {"from_str", "owned_from_str", "partial"} /\ out.ok) => HasCache(expr)
  /\ (last.name = "unparse" /\ HasCache(prev)) => out.ok
  /\ (last.name = "partial" /\ HasCache(prev) /\ last.arg < prev.ex.n_unique_vars) => out.ok

\* a step that removes the cache of the held expression is reduce_memory
OnlyReduceMemoryRemoves ==
  (Held /\ HasCache(expr) /\ expr'.kind # "none" /\ ~HasCache(expr'))
    => last'.name = "reduce_memory"

\* no step on an expression without the cache gives the cache back
NeverRestored ==
  (Held /\ ~HasCache(expr) /\ expr'.kind # "none") => ~HasCache(expr')

\* C17: the deep cache is present in every expression returned by parse and
\* by a successful partial, so unparse and partial succeed after any number
\* of derivations; only reduce_memory removes the cache; once removed, no
\* operation on the expression (eval, unparse, partial, reduce_memory,
\* conversion to OwnedFlatEx) restores it.
C17_CacheLifecycle ==
  /\ []CachePresent
  /\ [][OnlyReduceMemoryRemoves /\ NeverRestored]_vars

\* derived twice, then reduce_memory, then converted: the OwnedFlatEx has no
\* cache
C17_Witness ==
  /\ last.name = "from_flatex"
  /\ steps = 2
  /\ ~HasCache(prev)
  /\ ~HasCache(expr)

\* ------------------------------------------------------------------ C18
\* the value of a FlatEx where every variable has the value env gives its name
ExprAt(flatex, env) ==
  FlatEx_eval(flatex, [j \in 1..flatex.n_unique_vars |-> env[flatex.deepex[1].var_names[j]]])

\* the value at env of the derivative of the term t by the variable name: t
\* is parsed on its own and derived by the index name has in t
TermDerivative(t, name, env) ==
  IF name \notin TextNames(t) THEN Ok(0)
  ELSE ExprAt(FlatEx_partial(FlatEx_from_str(t).v,
                             NameIndex(name, SortedNames(TextNames(t))) - 1).v, env)

\* d/dx x = 1, d/dx c = 0, d/dx y = 0
LeafDerivative(l, name) == IF l.k = "var" /\ l.name = name THEN 1 ELSE 0

\* C18: the derivative of u + v by a declared variable evaluates, at every
\* binding, to the sum of the derivatives of u and of v, and the derivative
\* of u - v to their difference; where u and v are single operands, the
\* derivative of the variable itself counts 1, a literal 0 and another
\* variable 0.
C18_Linearity ==
  (last.name = "partial" /\ steps = 1 /\ out.ok) =>
    \A env \in [VarNames -> BindVals] :
      \E name \in {CacheVarNames(prev)[last.arg + 1]} :
        /\ ExprAt(expr.ex, env) =
             Ok(ApplyBin(IF input.op = "+" THEN "add" ELSE "sub",
                         TermDerivative(input.u, name, env).v,
                         TermDerivative(input.v, name, env).v))
        /\ (Len(input.u) = 1 /\ Len(input.v) = 1) =>
             ExprAt(expr.ex, env) =
               Ok(ApplyBin(IF input.op = "+" THEN "add" ELSE "sub",
                           LeafDerivative(input.u[1], name),
                           LeafDerivative(input.v[1], name)))

\* x * y - ( y - x ) derived by y
C18_Witness ==
  /\ last.name = "partial"
  /\ last.arg = 1
  /\ steps = 1
  /\ out.ok
  /\ text = <<LVar("x", FALSE), LOp("*"), LVar("y", FALSE), LOp("-"),
              LOpen, LVar("y", FALSE), LOp("-"), LVar("x", FALSE), LClose>>
  /\ ExprAt(expr.ex, [n \in VarNames |-> 2]) = Ok(1)

\* ------------------------------------------------------------------ C19
\* f and o return the same for eval and unparse, before and after
\* reduce_memory, and partial fails on both or returns a FlatEx and the
\* OwnedFlatEx made of that FlatEx: the pair after a derivation is again a
\* FlatEx with its conversion, which carries the equivalence along every
\* sequence of operations
SameObservations(f, o) ==
  /\ \A bindings \in AnyBindings : FlatEx_eval(f, bindings) = OwnedFlatEx_eval(o, bindings)
  /\ FlatEx_unparse(f) = OwnedFlatEx_unparse(o)
  /\ FlatEx_unparse(FlatEx_reduce_memory(f)) = OwnedFlatEx_unparse(OwnedFlatEx_reduce_memory(o))
  /\ \A bindings \in AnyBindings :
       FlatEx_eval(FlatEx_reduce_memory(f), bindings)
         = OwnedFlatEx_eval(OwnedFlatEx_reduce_memory(o), bindings)
  /\ \A var_idx \in 0..MaxBind :
       \E pf \in {FlatEx_partial(f, var_idx)}, po \in {OwnedFlatEx_partial(o, var_idx)} :
         /\ pf.ok = po.ok
         /\ ~pf.ok => pf = po
         /\ pf.ok => po.v = OwnedFlatEx_from_flatex(pf.v)
  /\ \A var_idx \in 0..MaxBind :
       FlatEx_partial(FlatEx_reduce_memory(f), var_idx)
         = OwnedFlatEx_partial(OwnedFlatEx_reduce_memory(o), var_idx)

\* the deep tree rebuilt from the owned buffer is the tree the buffer was made of
RoundTripsThroughBuf(d) == DeepBuf_to_deepex(DeepBuf_from_deepex(d)) = Ok(d)

\* C19: a FlatEx and the OwnedFlatEx made of it by from_flatex succeed or fail
\* together and return equal values and texts under every sequence of eval,
\* unparse, partial and reduce_memory; and DeepBuf::to_deepex of
\* DeepBuf::from_deepex(d) has the nodes, operators, unary prefix and
\* variable list of d, for the deep tree d of every parsed or derived FlatEx.
\* (Stated where a FlatEx was just returned or changed; eval, unparse and
\* Display leave it as it is.)
C19_OwnedEquivalence ==
  (expr.kind = "FlatEx" /\ last.name \in {"from_str", "partial", "reduce_memory"}) =>
    /\ HasCache(expr) => RoundTripsThroughBuf(expr.ex.deepex[1])
    /\ SameObservations(expr.ex, OwnedFlatEx_from_flatex(expr.ex))

\* x * y derived by x: the FlatEx and the OwnedFlatEx made of it can both be
\* derived again, and the cache holds nested expressions
C19_Witness ==
  /\ last.name = "partial"
  /\ last.arg = 0
  /\ expr.kind = "FlatEx"
  /\ out.ok
  /\ text = <<LVar("x", FALSE), LOp("*"), LVar("y", FALSE)>>
  /\ \E j \in 1..Len(expr.ex.deepex[1].nodes) : expr.ex.deepex[1].nodes[j].k = "Expr"
  /\ FlatEx_partial(expr.ex, 1).ok
  /\ OwnedFlatEx_partial(OwnedFlatEx_from_flatex(expr.ex), 1).ok

\* ------------------------------------------------------------------ C20
\* u1(u2(...un(body)...))
RECURSIVE WrappedIn(_, _)
WrappedIn(reprs, body) ==
  IF reprs = <<>> THEN body
  ELSE <<LOp(Head(reprs)), LOpen>> \o WrappedIn(Tail(reprs), body) \o <<LClose>>

\* the text the format describes for a deep expression
RECURSIVE Rendered(_)
Rendered(d) ==
  LET child(n) ==
        CASE n.k = "Num" -> format_debug(n.v)
          [] n.k = "Var" -> <<LVar(n.name, TRUE)>>
          [] n.k = "Expr" -> IF n.e.unary_op.op = <<>>
                             THEN <<LOpen>> \o Rendered(n.e) \o <<LClose>>
                             ELSE Rendered(n.e)
  IN  WrappedIn(d.unary_op.reprs,
                Concat([j \in 1..Len(d.nodes) |->
                          (IF j = 1 THEN <<>> ELSE <<LOp(d.bin_ops.reprs[j - 1])>>)
                            \o child(d.nodes[j])]))

\* unary operators of an expression and of every expression nested in it
RECURSIVE UnaryCount(_)
UnaryCount(d) ==
  Len(d.unary_op.op)
    + Len(Concat([j \in 1..Len(d.nodes) |->
                    IF d.nodes[j].k = "Expr"
                    THEN [h \in 1..UnaryCount(d.nodes[j].e) |-> 0] ELSE <<>>]))

\* nested expressions without a unary prefix, at every depth
RECURSIVE BareGroupCount(_)
BareGroupCount(d) ==
  Len(Concat([j \in 1..Len(d.nodes) |->
                IF d.nodes[j].k = "Expr"
                THEN [h \in 1..(BareGroupCount(d.nodes[j].e)
                                  + (IF d.nodes[j].e.unary_op.op = <<>> THEN 1 ELSE 0)) |-> 0]
                ELSE <<>>]))

\* C20: unparse_raw writes every variable as {name}, a nested expression
\* without unary prefix as (body), an expression with the unary chain u1..un
\* as u1(u2(...un(body)...)) with exactly n closing parentheses, and the
\* binary operator representations between consecutive children in order;
\* the parentheses of the output are balanced.
C20_UnparseFormat ==
  last = "unparse" =>
    /\ unparsed = Rendered(deepex.v)
    /\ \A j \in 1..Len(unparsed) : unparsed[j].k = "var" => unparsed[j].curly
    /\ IsBalanced(unparsed)
    /\ Cardinality({j \in 1..Len(unparsed) : unparsed[j].k = "close"})
         = UnaryCount(deepex.v) + BareGroupCount(deepex.v)

\* - - abs ( x - 7 ): a chain of three unary operators around a difference
C20_Witness ==
  /\ last = "unparse"
  /\ deepex.v.unary_op.reprs = <<"-", "-", "abs">>
  /\ Len(deepex.v.nodes) = 2
  /\ unparsed = <<LOp("-"), LOpen, LOp("-"), LOpen, LOp("abs"), LOpen,
                  LVar("x", TRUE), LOp("-"), LNum(7), LClose, LClose, LClose>>

\* ------------------------------------------------------------------ C21
\* ((a op1 b) op2 c) op3 d ...
RECURSIVE LeftFold(_, _)
LeftFold(numbers, ops) ==
  IF ops = <<>> THEN numbers[1]
  ELSE LeftFold(<<ApplyBin(ops[1].apply, numbers[1], numbers[2])>> \o Suffix(numbers, 2),
                Tail(ops))

\* the operands are no literals, the operators are non-commutative and of one
\* priority
IsEqualPriorityChain(d) ==
  /\ Len(d.bin_ops.ops) >= 1
  /\ \A j \in 1..Len(d.nodes) : d.nodes[j].k # "Num"
  /\ \A j \in 1..Len(d.bin_ops.ops) :
       /\ ~d.bin_ops.ops[j].is_commutative
       /\ d.bin_ops.ops[j].prio = d.bin_ops.ops[1].prio

\* C21: on operands that are no literals, under non-commutative operators of
\* one priority, the consumed-skipping reduction of eval ends without leaving
\* the slots, never marks slot 0 consumed, and leaves in slot 0 the left fold
\* of the operand values with the operators, whatever the values are; eval
\* returns that slot.
C21_LeftFoldOfEqualPriority ==
  (last = "new" /\ deepex.ok /\ IsEqualPriorityChain(deepex.v)) =>
    /\ \A numbers \in [1..Len(deepex.v.nodes) -> BindVals] :
         \E st \in {reduce(numbers, deepex.v.bin_ops.ops,
                           prioritized_indices(deepex.v.bin_ops.ops, deepex.v.nodes))} :
           /\ ~st.panic
           /\ ~st.ignore[1]
           /\ \A j \in 2..Len(st.ignore) : st.ignore[j]
           /\ st.numbers[1] = LeftFold(numbers, deepex.v.bin_ops.ops)
    /\ \A bindings \in Bindings(1) :
         eval(deepex.v, bindings) =
           Ok(LeftFold([j \in 1..Len(deepex.v.nodes) |-> bindings[1]], deepex.v.bin_ops.ops))

C21_Witness ==
  /\ last = "new"
  /\ deepex.ok
  /\ IsEqualPriorityChain(deepex.v)
  /\ Len(deepex.v.nodes) = MaxNodes
  /\ \A j \in 1..Len(deepex.v.bin_ops.ops) : deepex.v.bin_ops.ops[j].apply = "sub"
  /\ eval(deepex.v, <<2>>) = Ok(2 - 2 * (MaxNodes - 1))
  /\ reduce(<<2, -3, -3>> \o [j \in 1..(MaxNodes - 3) |-> 2], deepex.v.bin_ops.ops,
            <<0, 1, 2>> \o [j \in 1..(MaxNodes - 4) |-> j + 2]).numbers[1]
       = 8 - 2 * (MaxNodes - 3)

\* ------------------------------------------------------------------ C22
\* the folding loop of the compile run that built deepex
CompileRun ==
  compile_fold(lift_nodes(DeepEx(input.nodes, input.bin_ops, UnaryOpWithReprs_new, <<>>)))

\* the original nodes lhs.lo .. rhs.hi are the operands of the fold of visit v
IsOperandOfFold(node, v) == v.what = "fold" /\ v.lhs.lo <= node /\ node <= v.rhs.hi

\* C22: in the folding loop of compile, a visit that finds a neighbour that is
\* no literal declines both neighbours: from then on both are marked, and no
\* later fold of the run has one of them as operand. A fold happens only
\* where both neighbours are literals and neither is marked; the flags of
\* already_declined that a visit reads are those of the nodes it reads.
C22_DeclinedBoundary ==
  (last = "new" /\ deepex.ok) =>
    \E st \in {CompileRun} :
      \A k \in 1..Len(st.visits) :
        \E v \in {st.visits[k]} :
          /\ v.what = "fold" =>
                /\ v.lhs_literal /\ v.rhs_literal
                /\ v.lhs.lo \notin v.marked /\ v.rhs.lo \notin v.marked
          /\ v.what = "decline" <=> ~(v.lhs_literal /\ v.rhs_literal)
          /\ v.lhs_declined <=> v.lhs.lo \in v.marked
          /\ v.rhs_declined <=> v.rhs.lo \in v.marked
          /\ v.what = "decline" =>
                \A h \in (k + 1)..Len(st.visits) :
                  /\ {v.lhs.lo, v.rhs.lo} \subseteq st.visits[h].marked
                  /\ \A node \in v.lhs.lo..v.rhs.hi : ~IsOperandOfFold(node, st.visits[h])

\* x + 3 - 4 with + and - of one priority: the visit of + declines x and 3,
\* the visit of - finds two literals and does not fold
C22_Witness ==
  /\ last = "new"
  /\ deepex.ok
  /\ input.nodes = <<Var(0, "x"), Num(3), Num(4)>>
  /\ Len(CompileRun.visits) = 2
  /\ CompileRun.visits[1].what = "decline"
  /\ CompileRun.visits[2].what = "skip"
  /\ Len(deepex.v.nodes) = 3

\* ------------------------------------------------------------------ C23
\* every variable node of d, at any depth, carries the position of its name
\* in the variable list of d
IndicesAgree(d) ==
  \A n \in VarNodes(d) : n.idx < Len(d.var_names) /\ d.var_names[n.idx + 1] = n.name

\* C23: in the root expression parse returns, and in both expressions
\* var_names_union returns, every variable node at any depth carries the
\* index at which the variable list of the root holds its name.
C23_VariableIndexAgreement ==
  /\ last \in {"parse", "var_names_union"} =>
        \A i \in 1..2 : prev[i].ok => IndicesAgree(prev[i].v)
  /\ last = "var_names_union" => IndicesAgree(out[1]) /\ IndicesAgree(out[2])

\* y - (-y*y) and x: the index of y moves from 0 to 1, three levels deep too
C23_Witness ==
  /\ last = "var_names_union"
  /\ text = <<<<LVar("y", FALSE), LOp("-"), LOpen, LOp("-"), LVar("y", FALSE), LOp("*"),
                LVar("y", FALSE), LClose>>, <<LVar("x", FALSE)>>>>
  /\ VarNodes(prev[1].v) = {Var(0, "y")}
  /\ VarNodes(out[1]) = {Var(1, "y")}
  /\ \E j \in 1..Len(out[1].nodes) :
       out[1].nodes[j].k = "Expr" /\ VarNodes(out[1].nodes[j].e) = {Var(1, "y")}
  /\ out[2].nodes = <<Var(0, "x")>>

\* ------------------------------------------------------------------ C24
\* d without what var_names_union is there to rewrite: the index of every
\* variable node and the variable list, at every depth
RECURSIVE WithoutIndices(_)
WithoutIndices(d) ==
  [d EXCEPT !.var_names = <<>>,
            !.nodes = [j \in 1..Len(d.nodes) |->
                         CASE d.nodes[j].k = "Var" -> Var(0, d.nodes[j].name)
                           [] d.nodes[j].k = "Expr" -> Expr(WithoutIndices(d.nodes[j].e))
                           [] OTHER -> d.nodes[j]]]

\* the bindings of the names of own, taken from bindings in the order of merged
OwnBindings(own, merged, bindings) ==
  [j \in 1..Len(own) |-> bindings[NameIndex(own[j], merged)]]

\* what the two results have in common with the operands, the nodes aside
UnionKeepsTheRest ==
  /\ out[1].var_names = out[2].var_names
  /\ out[1].var_names =
       SortedNames(Range(prev[1].v.var_names) \cup Range(prev[2].v.var_names))
  /\ \A i \in 1..2 :
       /\ out[i].bin_ops = prev[i].v.bin_ops
       /\ out[i].unary_op = prev[i].v.unary_op
       /\ unparse_raw(out[i]) = unparse_raw(prev[i].v)
       /\ \A bindings \in Bindings(Len(out[i].var_names)) :
            eval(out[i], bindings) =
              eval(prev[i].v, OwnBindings(prev[i].v.var_names, out[i].var_names, bindings))

\* C24 as stated: var_names_union returns two expressions with one variable
\* list, the sorted duplicate-free union of the two lists; nodes, operators
\* and unparsed text of each are unchanged, and each evaluates under the
\* merged binding order to the value it had under its own.
C24_UnionKeepsNodes ==
  last = "var_names_union" =>
    /\ UnionKeepsTheRest
    /\ \A i \in 1..2 : out[i].nodes = prev[i].v.nodes

\* C24, amended: as above, but the nodes are unchanged up to the index of the
\* variable nodes, which is the position of the name in the merged list, at
\* every depth.
C24_UnionKeepsNodesUpToIndices ==
  last = "var_names_union" =>
    /\ UnionKeepsTheRest
    /\ \A i \in 1..2 :
         /\ WithoutIndices(out[i]) = WithoutIndices(prev[i].v)
         /\ IndicesAgree(out[i])

\* y*2 and (x-y): y is read at index 0 before and at index 1 after
C24_Witness ==
  /\ last = "var_names_union"
  /\ text = <<<<LVar("y", FALSE), LOp("*"), LNum(2)>>,
              <<LOpen, LVar("x", FALSE), LOp("-"), LVar("y", FALSE), LClose>>>>
  /\ prev[1].v.var_names = <<"y">>
  /\ out[1].var_names = <<"x", "y">>
  /\ out[2].var_names = <<"x", "y">>
  /\ prev[1].v.nodes[1] = Var(0, "y")
  /\ out[1].nodes[1] = Var(1, "y")
  /\ eval(prev[1].v, <<-3>>) = Ok(-6)
  /\ eval(out[1], <<2, -3>>) = Ok(-6)
  /\ eval(out[2], <<2, -3>>) = Ok(5)

\* ------------------------------------------------------------------ C25
RECURSIVE LeadingOpens(_)
LeadingOpens(t) == IF t # <<>> /\ t[1].k = "open" THEN 1 + LeadingOpens(Tail(t)) ELSE 0

\* t is a body in one or more layers of parentheses; Unwrap(t) is the body
Unwrap(t) == SubSeq(t, LeadingOpens(t) + 1, Len(t) - LeadingOpens(t))
IsWrapped(t) ==
  /\ LeadingOpens(t) >= 1
  /\ Len(t) > 2 * LeadingOpens(t)
  /\ t = Parens(Unwrap(t), LeadingOpens(t))

\* the node an operand of the text stands for in the tree d
IsNodeOf(node, c, d) ==
  IF c.k = "num" THEN node = Num(c.digits)
  ELSE node.k = "Var" /\ node.name = c.name /\ d.var_names[node.idx + 1] = c.name

\* the wrapped operand w next to the operand c under the operator r: the tree
\* is that of the text without the parentheses when the body is one operand,
\* and has the tree of the body as nested child at position at when the body
\* compiles to two or more operands
ChildIsLifted(c, r, w, at, unwrapped) ==
  \E inner \in {parse(Unwrap(w), input)} :
    /\ Len(Unwrap(w)) = 1 =>
         \E bare \in {parse(unwrapped, input)} : deepex.ok /\ bare.ok /\ deepex.v = bare.v
    /\ (inner.ok /\ Len(inner.v.nodes) >= 2) =>
         /\ deepex.ok
         /\ Len(deepex.v.nodes) = 2
         /\ IsNodeOf(deepex.v.nodes[3 - at], c, deepex.v)
         /\ deepex.v.bin_ops.reprs = <<r.repr>>
         /\ deepex.v.unary_op = UnaryOpWithReprs_new
         /\ deepex.v.nodes[at].k = "Expr"
         /\ WithoutIndices(deepex.v.nodes[at].e) = WithoutIndices(inner.v)
         /\ IndicesAgree(deepex.v)

RECURSIVE NestedUnaryCount(_)
NestedUnaryCount(d) ==
  LET F[j \in 0..Len(d.nodes)] ==
        IF j = 0 THEN 0
        ELSE F[j - 1] + (IF d.nodes[j].k = "Expr"
                         THEN (IF Len(d.nodes[j].e.unary_op.op) > 0 THEN 1 ELSE 0)
                                + NestedUnaryCount(d.nodes[j].e)
                         ELSE 0)
  IN  F[Len(d.nodes)]

\* C26: the flat expression of a compiled deep expression declares as many
\* variables as the deep expression and evaluates, on every binding of that
\* length, to what the recursive deep evaluation returns, unary prefixes of
\* the root and of nested expressions included.
C26_FlattenPreservesEval ==
  (last # "init" /\ deepex.ok) =>
    \E flatex \in {flatten(deepex.v)} :
      /\ flatex.n_unique_vars = Len(deepex.v.var_names)
      /\ \A bindings \in Bindings(Len(deepex.v.var_names)) :
           \E deep \in {eval(deepex.v, bindings)} :
             deep.ok /\ FlatEx_eval(flatex, bindings) = deep

\* -((x+x*x) + (-y)): a prefix on the root and one on a nested expression
C26_Witness ==
  /\ last = "operate_unary"
  /\ deepex.ok
  /\ deepex.v.var_names = <<"x", "y">>
  /\ Len(deepex.v.unary_op.op) = 1
  /\ NestedUnaryCount(deepex.v) = 1
  /\ input.nodes = <<Var(0, "x"), Var(0, "x"), Var(0, "x")>>
  /\ input.bin_ops.reprs = <<"+", "*">>
  /\ eval(deepex.v, <<2, -3>>) = Ok(-9)
  /\ FlatEx_eval(flatten(deepex.v), <<2, -3>>) = Ok(-9)

\* ------------------------------------------------------------------ C27
\* C27: compile run on an expression that was compiled before (by
\* DeepEx::new, operate_bin, operate_unary or compile) leaves its nodes, its
\* binary operators with their representations, its unary prefix and its
\* variable list as they were.
C27_CompileIdempotent == [][last' = "compile" => deepex' = deepex]_vars

\* compile ran again on (3 + 3*x) + (y*3) after operate_bin built it
C27_Witness ==
  /\ last = "compile"
  /\ steps = 1
  /\ deepex.ok
  /\ input.nodes = <<Num(3), Num(3), Var(0, "x")>>
  /\ deepex.v.var_names = <<"x", "y">>
  /\ Len(deepex.v.nodes) = 2
  /\ deepex.v.nodes[1].k = "Expr"
  /\ deepex.v.nodes[2].k = "Expr"

\* ------------------------------------------------------------------ C28
\* C28: for operands and operators with one operand more than operators, at
\* every visit of an operator in the folding loop of compile the adjusted
\* index num_idx and num_idx + 1 are inside nodes and inside
\* already_declined, nodes[num_idx] ends with the original left operand of the
\* operator and nodes[num_idx + 1] begins with its original right operand;
\* every operator is visited once, and compile does not panic.
C28_IndexBookkeeping ==
  (last = "new" /\ Len(input.nodes) = Len(input.bin_ops.ops) + 1) =>
    /\ deepex.ok
    /\ \E st \in {CompileRun} :
         /\ ~st.panic
         /\ Len(st.visits) = Len(input.bin_ops.ops)
         /\ \A k \in 1..Len(st.visits) :
              \E v \in {st.visits[k]} :
                /\ v.what # "panic"
                /\ 0 <= v.at
                /\ v.at + 1 < v.n_nodes
                /\ v.at + 1 < v.n_declined
                /\ v.lhs.hi = v.op
                /\ v.rhs.lo = v.op + 1
                /\ \A h \in 1..Len(st.visits) : st.visits[h].op = v.op => h = k

\* 3 * 3 + 3 + x: after the folds of * and of the first +, the last + is
\* visited at index 0, with 3 * 3 + 3 to its left
C28_Witness ==
  /\ last = "new"
  /\ deepex.ok
  /\ input.nodes = <<Num(3), Num(3), Num(3), Var(0, "x")>>
  /\ Len(CompileRun.visits) = 3
  /\ CompileRun.visits[3].op = 2
  /\ CompileRun.visits[3].at = 0
  /\ CompileRun.visits[3].lhs = [lo |-> 0, hi |-> 2]
  /\ CompileRun.visits[3].what = "decline"
  /\ deepex.v.nodes = <<Num(12), Var(0, "x")>>

\* ------------------------------------------------------------------ C29
\* the operator at index j (0-based) is commutative and stands between two
\* literals
HasBonus(j) ==
  /\ input.bin_ops.ops[j + 1].is_commutative
  /\ input.nodes[j + 1].k = "Num"
  /\ input.nodes[j + 2].k = "Num"

EffectivePriority(j) == input.bin_ops.ops[j + 1].prio * 10 + (IF HasBonus(j) THEN 5 ELSE 0)

\* C29: prioritized_indices returns every operator index once, by decreasing
\* effective priority (ten times the raw priority, plus five for a
\* commutative operator between two literals), operators of one effective
\* priority in the order of their indices; no operator comes before one of
\* strictly higher raw priority.
C29_PrioritizedIndices ==
  (last = "new" /\ deepex.ok) =>
    \E indices \in {prioritized_indices(input.bin_ops.ops, input.nodes)} :
      /\ Len(indices) = Len(input.bin_ops.ops)
      /\ Range(indices) = 0..(Len(input.bin_ops.ops) - 1)
      /\ \A i \in 1..Len(indices) : \A j \in (i + 1)..Len(indices) :
           /\ EffectivePriority(indices[i]) >= EffectivePriority(indices[j])
           /\ EffectivePriority(indices[i]) = EffectivePriority(indices[j])
                => indices[i] < indices[j]
           /\ input.bin_ops.ops[indices[i] + 1].prio >= input.bin_ops.ops[indices[j] + 1].prio

\* x * 3 - 3 + 3 with - and + of priority 1: the bonus puts + before -, and
\* both stay behind *
C29_Witness ==
  /\ last = "new"
  /\ deepex.ok
  /\ input.nodes = <<Var(0, "x"), Num(3), Num(3), Num(3)>>
  /\ input.bin_ops.ops = <<BinOp("mul", 2, TRUE), BinOp("sub", 1, FALSE), BinOp("add", 1, TRUE)>>
  /\ prioritized_indices(input.bin_ops.ops, input.nodes) = <<0, 2, 1>>

\* ------------------------------------------------------------------ C30
\* tokens consumed so far, counted from the start of the text
Position == Top.base + Top.idx_tkn

\* every call is inside the slice it was given, and one that has left its
\* loop on a slice that is not empty has consumed at least one token
CountsInside ==
  \A j \in 1..Len(prev) :
    /\ 0 <= prev[j].base /\ 0 <= prev[j].len /\ prev[j].base + prev[j].len <= Len(text)
    /\ prev[j].idx_tkn <= prev[j].len
    /\ (~InLoop(prev[j]) /\ prev[j].len > 0) => prev[j].idx_tkn >= 1

\* an iteration or a call moves on by at least one token, a return gives the
\* caller the position the call had reached
Advances ==
  /\ last' \in {"iterate", "call"} => Position' >= Position + 1
  /\ last' = "return" => Position' = Position /\ Len(prev') = Len(prev) - 1

\* the outermost call returns what make_expression returns
SameAsMakeExpression ==
  last = "done" =>
    \E built \in {make_expression(BuildTokens, find_parsed_vars(BuildTokens),
                                   UnaryOpWithReprs_new)} :
      /\ out.ok = built.ok
      /\ (out = Panic) = (built = Panic)
      /\ out.ok => (out.v = built.fwd /\ 1 <= out.v /\ out.v <= Len(text))

\* C30: on every token stream make_expression, with process_unary and the
\* calls of itself, comes to an end; every iteration of the loop and every
\* call moves the token index on by at least one; the count of consumed
\* tokens a call returns is at least 1 on a slice that is not empty and at
\* most the length of the slice.
C30_TreeBuildingTerminates ==
  /\ [](CountsInside /\ SameAsMakeExpression)
  /\ [][Advances]_vars
  /\ <>(last = "done")

\* - ( x ): the call made by process_unary has returned 2, the outermost call
\* returns 4
C30_Witness ==
  /\ last = "done"
  /\ text = <<LOp("-"), LOpen, LVar("x", FALSE), LClose>>
  /\ out = Ok(4)
  /\ Len(prev) = 1
  /\ Top.n_nodes = 1

====
